---- MODULE Spec2Model ----
(***************************************************************************)
(* Model of the data aggregation / caching layer and of the analysis       *)
(* functions of the XAUUSD market analysis system (src/data_fetcher.py,    *)
(* src/app.py, src/config.py, src/technical_analysis.py,                   *)
(* src/market_analysis.py).                                                *)
(*                                                                         *)
(* Time is counted in whole seconds.  A value handled by the cache is a    *)
(* string: "None" is Python's None, "[]" and "{}" are the empty list and   *)
(* the empty map (not None, but falsy), anything else is real data.        *)
(* In SpecNews the value under news_events is the list of events itself.   *)
(*                                                                         *)
(* Specifications:                                                         *)
(*   Spec      - MarketDataAggregator._get_cached_data called directly,    *)
(*               call after call, with any key, ttl and fetch outcome.     *)
(*   SpecCycle - one get_full_market_snapshot cycle: the caller and the    *)
(*               three pool tasks, step by step, against the clock.        *)
(*   SpecPair  - two such cycles from one cache state, to compare them.    *)
(*   SpecLoop  - the background thread of src/app.py, cycles abstracted to *)
(*               "returned a snapshot" or "raised".                        *)
(*   SpecServe - SpecLoop's thread beside the handlers of /api/snapshot    *)
(*               and of request_update.                                    *)
(*   SpecRace  - two threads inside _get_cached_data on one key, one       *)
(*               statement at a time, in any interleaving.                 *)
(*   SpecAnalysis - one call of an analysis function (TechnicalAnalyzer,   *)
(*               MarketAnalysisEngine), of get_price_data or of the        *)
(*               batched quote request, on an input drawn from bounded     *)
(*               sets.  Numbers are exact rationals <<num, den>>; the      *)
(*               rounding of Python floats is not modelled.                *)
(*   SpecReading - one FRED reading from the provider's observations       *)
(*               through get_correlation_data into the snapshot.           *)
(*   SpecNews  - the cached event list read by cycle after cycle while     *)
(*               the clock advances.                                       *)
(*                                                                         *)
(* In SpecCycle code that does not block takes no time: the clock moves    *)
(* only while every thread sleeps, waits for a provider or waits for a     *)
(* future.                                                                 *)
(***************************************************************************)
EXTENDS Integers, Sequences, FiniteSets, TLC

VARIABLES
    cache,              \* self.cache: key -> stored value (a Python dict)
    cache_timestamps,   \* self.cache_timestamps: key -> time.time() of the store
    now,                \* the wall clock, time.time()
    last,               \* history: the most recent direct _get_cached_data call
    env,                \* the providers' behaviour during the cycle (input)
    pc,                 \* where the caller ("main") and the three pool tasks stand
    wake,               \* task -> time its sleep or network call ends
    cur,                \* task -> the _get_cached_data call it is in
    loc,                \* task -> its local variables
    fut,                \* task -> its Future (pending, done with a value, raised)
    mloc,               \* locals of get_full_market_snapshot
    result,             \* what get_full_market_snapshot returned (None before)
    call,               \* history: task -> its latest finished _get_cached_data call
    req,                \* history: key -> the provider requests made for it
    hist,               \* history: cycle start, finish times, delays taken
    app,                \* src/app.py: the globals and the background thread
    thr,                \* threads inside _get_cached_data: position, locals; order of writes
    op,                 \* the function or handler applied last ("-" before any)
    arg,                \* its arguments
    out                 \* what it returned

cacheVars == <<cache, cache_timestamps, now>>
cycleVars == <<env, pc, wake, cur, loc, fut, mloc, result, call, req, hist>>
otherVars == <<thr, op, arg, out>>
vars == <<cache, cache_timestamps, now, last, env, pc, wake, cur, loc, fut, mloc,
          result, call, req, hist, app, thr, op, arg, out>>

(***************************************************************************)
(* Values                                                                  *)
(***************************************************************************)
None == "None"
Raise == "raise"
EmptyList == "[]"
EmptyMap == "{}"
NoCall == [key |-> "-"]

\* Python truthiness of a value (`if data:`)
Truthy(v) == v \notin {None, EmptyList, EmptyMap}

(***************************************************************************)
(* Bounds of the direct-call specification                                 *)
(***************************************************************************)
MaxTime == 3
DirectKeys == {"quote_XAU/USD", "news_events"}
DirectTTLs == {1, 2}
DirectData == {"v1", "v2"}
FetchOutcomes == DirectData \cup {None, EmptyList, EmptyMap, Raise}
FetchLatencies == {0, 1}

(***************************************************************************)
(* MarketDataAggregator._get_cached_data, src/data_fetcher.py:517-537      *)
(***************************************************************************)
EmptyDict == [k \in {} |-> None]

\* dict[key] = v
Put(d, key, v) == [k \in DOMAIN d \cup {key} |-> IF k = key THEN v ELSE d[k]]

\* self.cache.get(key)
CacheGet(c, key) == IF key \in DOMAIN c THEN c[key] ELSE None

\* Mutant: an entry stops being fresh one second early.
Fresh_OneSecondShort(c, ts, key, ttl, t) ==
    /\ key \in DOMAIN c
    /\ key \in DOMAIN ts
    /\ t - ts[key] < ttl - 1

\* lines 521-522: a fresh entry exists for key at time t
Fresh(c, ts, key, ttl, t) ==
    /\ key \in DOMAIN c
    /\ key \in DOMAIN ts
    /\ t - ts[key] < ttl

\* Mutant: the timestamp of a successful fetch is not recorded.
AfterFetch_NoStamp(c, ts, key, t, outcome) ==
    IF outcome \notin {Raise, None}
    THEN [cache |-> Put(c, key, outcome), ts |-> ts, ret |-> outcome, raised |-> FALSE]
    ELSE [cache |-> c, ts |-> ts, ret |-> CacheGet(c, key), raised |-> FALSE]

\* Mutant: a fetch that raises invalidates the entry.
AfterFetch_DropOnRaise(c, ts, key, t, outcome) ==
    IF outcome = Raise
    THEN [cache |-> [k \in DOMAIN c \ {key} |-> c[k]],
          ts |-> [k \in DOMAIN ts \ {key} |-> ts[k]],
          ret |-> CacheGet(c, key), raised |-> FALSE]
    ELSE IF outcome # None
    THEN [cache |-> Put(c, key, outcome), ts |-> Put(ts, key, t),
          ret |-> outcome, raised |-> FALSE]
    ELSE [cache |-> c, ts |-> ts, ret |-> CacheGet(c, key), raised |-> FALSE]

\* lines 526-537: what the call does once fetch_func has ended with `outcome`
\* (Raise: it raised; otherwise the value it returned); t is `now` of line 519.
AfterFetch(c, ts, key, t, outcome) ==
    IF outcome = Raise
    THEN [cache |-> c, ts |-> ts, ret |-> CacheGet(c, key), raised |-> FALSE]
    ELSE IF outcome # None
    THEN [cache |-> Put(c, key, outcome), ts |-> Put(ts, key, t),
          ret |-> outcome, raised |-> FALSE]
    ELSE [cache |-> c, ts |-> ts, ret |-> CacheGet(c, key), raised |-> FALSE]

\* self.cache_timestamps.get(key), -1 standing for "no timestamp"
StampGet(ts, key) == IF key \in DOMAIN ts THEN ts[key] ELSE -1

\* The record kept of one call (history only): the entry of the key before
\* and after the call, whether fetch_func was invoked and how it ended, and what
\* the call gave back to its caller.
CallRecord(c, ts, key, ttl, t, fetched, outcome, res) ==
    [key |-> key, ttl |-> ttl, at |-> t,
     hadEntry |-> key \in DOMAIN c,
     beforeV |-> CacheGet(c, key), beforeTs |-> StampGet(ts, key),
     afterV |-> CacheGet(res.cache, key), afterTs |-> StampGet(res.ts, key),
     fetched |-> fetched, outcome |-> outcome,
     ret |-> res.ret, raised |-> res.raised]

\* lines 521-523: the fresh entry is returned, nothing is written
Hit(c, ts, key) == [cache |-> c, ts |-> ts, ret |-> c[key], raised |-> FALSE]

\* What the next call on the same key remembers of a call (history only).
Summary(r) ==
    IF r.key = "-" THEN NoCall
    ELSE [key |-> r.key, ttl |-> r.ttl, at |-> r.at,
          fetched |-> r.fetched, outcome |-> r.outcome, ret |-> r.ret]

\* The previous call on `key`, if the history still holds one.
PrevOn(key) ==
    IF last.call.key = key THEN Summary(last.call)
    ELSE IF last.prev.key = key THEN last.prev ELSE NoCall

\* One whole call of _get_cached_data(key, ttl, fetch_func): fetch_func ends
\* with `outcome` after d seconds.
GetCachedData(key, ttl, outcome, d) ==
    IF Fresh(cache, cache_timestamps, key, ttl, now)
    THEN LET res == Hit(cache, cache_timestamps, key) IN
         /\ cache' = res.cache
         /\ cache_timestamps' = res.ts
         /\ now' = now
         /\ last' = [call |-> CallRecord(cache, cache_timestamps, key, ttl, now, FALSE, "-", res),
                     prev |-> PrevOn(key)]
    ELSE LET res == AfterFetch(cache, cache_timestamps, key, now, outcome) IN
         /\ now + d <= MaxTime
         /\ cache' = res.cache
         /\ cache_timestamps' = res.ts
         /\ now' = now + d
         /\ last' = [call |-> CallRecord(cache, cache_timestamps, key, ttl, now, TRUE, outcome, res),
                     prev |-> PrevOn(key)]

DirectCall ==
    /\ \E key \in DirectKeys, ttl \in DirectTTLs, outcome \in FetchOutcomes, d \in FetchLatencies :
          GetCachedData(key, ttl, outcome, d)
    /\ UNCHANGED <<cycleVars, app, otherVars>>

\* time passes between two calls
Tick ==
    /\ now < MaxTime
    /\ now' = now + 1
    /\ UNCHANGED <<cache, cache_timestamps, last, otherVars, app, cycleVars>>

(***************************************************************************)
(* Configuration, src/config.py, and the waits written into the code       *)
(***************************************************************************)
TIMEFRAMES == <<"15min", "1h", "4h">>
TTL_PRICE_DATA == 300
TTL_QUOTE == 30
TTL_NEWS == 3600
TTL_CORRELATION == 60
InterCallDelay == 2
RateLimitCooldown == 61
TimeoutA == 20
TimeoutB == 10
TimeoutC == 5

QuoteKey == "quote_XAU/USD"
PriceKey(i) == "price_XAU/USD_" \o TIMEFRAMES[i]
PriceKeys == {PriceKey(i) : i \in 1..Len(TIMEFRAMES)}
FredKeys == <<"fred_us10y", "fred_us2y", "fred_us30y", "fred_dxy", "fred_vix", "fred_usdeur">>
FredNames == <<"US10Y", "US2Y", "US30Y", "DXY", "VIX", "USD/EUR">>
CorrelationNames == {"EUR/USD", "USD/JPY", "GBP/USD", "BTC/USD"}
BatchKey == "quotes_batch_BTC/USD,EUR/USD,GBP/USD,USD/JPY"
NewsKey == "news_events"
KeysA == {QuoteKey} \cup PriceKeys
KeysB == {FredKeys[i] : i \in 1..Len(FredKeys)} \cup {BatchKey}
KeysC == {NewsKey}
AllKeys == KeysA \cup KeysB \cup KeysC

Tasks == {"A", "B", "C"}
Timeout(g) == CASE g = "A" -> TimeoutA [] g = "B" -> TimeoutB [] g = "C" -> TimeoutC

(***************************************************************************)
(* Inputs of one cycle: how long the providers take (seconds per request)  *)
(* and what they answer.                                                   *)
(***************************************************************************)
StartTime == 3600
TwelveLatency == 1
FredLatency == 2
NewsLatency == 10
AllStatuses == {"ok", "429", "error"}
RetryStatuses == {"ok", "429"}
EntryStates == {"absent", "stale", "fresh"}
Faults == {"none", "A", "B", "C"}

Min(S) == CHOOSE x \in S : \A y \in S : x <= y

\* The last stage of each task: A = quote (0) then one stage per timeframe,
\* B = one stage per economic series then the batch, C = the events.
LastStage(t) == CASE t = "A" -> Len(TIMEFRAMES) [] t = "B" -> Len(FredKeys) + 1 [] t = "C" -> 1

\* The _get_cached_data call a task makes at a stage.
CallOf(t, stage) ==
    CASE t = "A" /\ stage = 0 ->
            [key |-> QuoteKey, ttl |-> TTL_QUOTE, fetcher |-> "get_quote"]
      [] t = "A" /\ stage > 0 ->
            [key |-> PriceKey(stage), ttl |-> TTL_PRICE_DATA, fetcher |-> "get_price_data"]
      [] t = "B" /\ stage <= Len(FredKeys) ->
            [key |-> FredKeys[stage], ttl |-> TTL_CORRELATION, fetcher |-> "get_series_latest"]
      [] t = "B" /\ stage > Len(FredKeys) ->
            [key |-> BatchKey, ttl |-> TTL_CORRELATION, fetcher |-> "get_quote"]
      [] t = "C" ->
            [key |-> NewsKey, ttl |-> TTL_NEWS, fetcher |-> "get_upcoming_events"]

\* Seconds one request to the fetcher's provider takes.
Latency(fetcher) ==
    CASE fetcher \in {"get_quote", "get_price_data"} -> TwelveLatency
      [] fetcher = "get_series_latest" -> FredLatency
      [] fetcher = "get_upcoming_events" -> NewsLatency

\* What the provider may answer to a first request of the fetcher.
Answers(fetcher) ==
    CASE fetcher \in {"get_quote", "get_price_data"} -> env.statuses
      [] fetcher = "get_series_latest" -> IF env.fredUp THEN {"ok"} ELSE {"error"}
      [] fetcher = "get_upcoming_events" -> {"ok"}

\* TwelveDataFetcher.get_quote, lines 84-88, sleeps and retries on HTTP 429;
\* TwelveDataFetcher.get_price_data, lines 34-35, has no such branch.
RetriesOn429(fetcher) == fetcher = "get_quote"

\* What the fetcher returns for the final HTTP answer: the parsed data, or None
\* (raise_for_status or an error payload, caught inside the fetcher).
FetcherReturn(fetcher, status) == IF status = "ok" THEN "new" ELSE None

(***************************************************************************)
(* The tasks' local steps                                                  *)
(***************************************************************************)
\* get_correlation_data lines 652-659: every configured name gets the batch's
\* quote when the batch answer is usable.
ProcessBatch(corr, batch) ==
    IF Truthy(batch)
    THEN [n \in DOMAIN corr \cup CorrelationNames |->
             IF n \in CorrelationNames THEN batch ELSE corr[n]]
    ELSE corr

\* The task's locals once the call of its current stage has returned `ret`.
NextLoc(t, ret) ==
    LET l == loc[t] IN
    CASE t = "A" /\ l.stage = 0 -> [l EXCEPT !.quote = ret, !.stage = 1]
      [] t = "A" /\ l.stage > 0 ->
            [l EXCEPT !.price_data = IF Truthy(ret)
                                     THEN Put(l.price_data, TIMEFRAMES[l.stage], ret)
                                     ELSE l.price_data,
                      !.stage = l.stage + 1]
      [] t = "B" /\ l.stage <= Len(FredKeys) ->
            [l EXCEPT !.correlation_data = IF Truthy(ret)
                                           THEN Put(l.correlation_data, FredNames[l.stage], ret)
                                           ELSE l.correlation_data,
                      !.stage = l.stage + 1]
      [] t = "B" /\ l.stage > Len(FredKeys) ->
            [l EXCEPT !.correlation_data = ProcessBatch(l.correlation_data, ret),
                      !.stage = l.stage + 1]
      [] t = "C" -> [l EXCEPT !.news = ret, !.stage = l.stage + 1]

\* What the task returns (get_xauusd_data 573-577, get_correlation_data 661,
\* get_upcoming_news 665-670).
TaskReturn(t, l) ==
    CASE t = "A" -> [quote |-> l.quote, price_data |-> l.price_data]
      [] t = "B" -> l.correlation_data
      [] t = "C" -> l.news

\* The task goes on after its current call returned `ret`: next stage, or the
\* task ends and its future gets the result.
Continue(t, ret) ==
    LET l == NextLoc(t, ret)
        over == loc[t].stage = LastStage(t) IN
    /\ loc' = [loc EXCEPT ![t] = l]
    /\ pc' = [pc EXCEPT ![t] = IF over THEN "done" ELSE IF t = "A" THEN "tf_check" ELSE "call"]
    /\ fut' = IF over THEN [fut EXCEPT ![t] = [state |-> "done", value |-> TaskReturn(t, l)]]
              ELSE fut
    /\ hist' = IF over THEN [hist EXCEPT !.finishedAt[t] = now] ELSE hist

Ready(t) == pc[t] \notin {"idle", "done"} /\ wake[t] <= now

\* An exception escapes the task body: the future holds the exception.
TaskFault(t) ==
    /\ pc[t] = "start" /\ Ready(t) /\ env.fault = t
    /\ pc' = [pc EXCEPT ![t] = "done"]
    /\ fut' = [fut EXCEPT ![t] = [state |-> "raised", value |-> None]]
    /\ hist' = [hist EXCEPT !.finishedAt[t] = now]
    /\ UNCHANGED <<cacheVars, last, otherVars, app, env, wake, cur, loc, mloc, result, call, req>>

\* The task body starts: get_xauusd_data 542, get_correlation_data 585,
\* get_upcoming_news 665.
TaskStart(t) ==
    /\ pc[t] = "start" /\ Ready(t) /\ env.fault # t
    /\ pc' = [pc EXCEPT ![t] = "call"]
    /\ UNCHANGED <<cacheVars, last, otherVars, app, env, wake, cur, loc, fut, mloc, result, call, req, hist>>

\* get_xauusd_data 553-559: the next timeframe; a key absent from the cache
\* costs the inter-call delay before _get_cached_data is called.
TimeframeCheck ==
    LET key == PriceKey(loc["A"].stage) IN
    /\ pc["A"] = "tf_check" /\ Ready("A")
    /\ pc' = [pc EXCEPT !["A"] = "call"]
    /\ IF key \notin DOMAIN cache
       THEN /\ wake' = [wake EXCEPT !["A"] = now + InterCallDelay]
            /\ hist' = [hist EXCEPT !.slept = @ \cup {key}]
       ELSE UNCHANGED <<wake, hist>>
    /\ UNCHANGED <<cacheVars, last, otherVars, app, env, cur, loc, fut, mloc, result, call, req>>

\* _get_cached_data 519-527: `now` is read; a fresh entry is returned at once,
\* otherwise fetch_func is entered and its request goes to the provider.
CachedCallStart(t) ==
    LET c == CallOf(t, loc[t].stage) IN
    /\ pc[t] = "call" /\ Ready(t)
    /\ IF Fresh(cache, cache_timestamps, c.key, c.ttl, now)
       THEN LET res == Hit(cache, cache_timestamps, c.key) IN
            /\ cache' = res.cache
            /\ cache_timestamps' = res.ts
            /\ call' = [call EXCEPT ![t] =
                  CallRecord(cache, cache_timestamps, c.key, c.ttl, now, FALSE, "-", res)]
            /\ Continue(t, res.ret)
            /\ UNCHANGED <<wake, cur, req>>
       ELSE \E s \in Answers(c.fetcher) :
            /\ cur' = [cur EXCEPT ![t] = [key |-> c.key, ttl |-> c.ttl, fetcher |-> c.fetcher,
                                          t0 |-> now, status |-> s]]
            /\ wake' = [wake EXCEPT ![t] = now + Latency(c.fetcher)]
            /\ pc' = [pc EXCEPT ![t] = "resp"]
            /\ req' = [req EXCEPT ![c.key] = [attempts |-> 1, first |-> s,
                                             cooled |-> FALSE, done |-> FALSE]]
            /\ hist' = [hist EXCEPT !.log = Append(@, c.key)]
            /\ UNCHANGED <<cache, cache_timestamps, call, loc, fut>>
    /\ UNCHANGED <<now, last, otherVars, app, env, mloc, result>>

\* _get_cached_data 528-537 with the fetcher's return value: store, record, go on.
FinishCall(t, status) ==
    LET c == cur[t]
        outcome == FetcherReturn(c.fetcher, status)
        res == AfterFetch(cache, cache_timestamps, c.key, c.t0, outcome) IN
    /\ cache' = res.cache
    /\ cache_timestamps' = res.ts
    /\ call' = [call EXCEPT ![t] =
          CallRecord(cache, cache_timestamps, c.key, c.ttl, c.t0, TRUE, outcome, res)]
    /\ req' = [req EXCEPT ![c.key].done = TRUE]
    /\ Continue(t, res.ret)

\* The provider's answer arrives.  get_quote 84-88: on 429 sleep, then retry.
Response(t) ==
    /\ pc[t] = "resp" /\ Ready(t)
    /\ IF cur[t].status = "429" /\ RetriesOn429(cur[t].fetcher)
       THEN /\ pc' = [pc EXCEPT ![t] = "cooldown"]
            /\ wake' = [wake EXCEPT ![t] = now + RateLimitCooldown]
            /\ req' = [req EXCEPT ![cur[t].key].cooled = TRUE]
            /\ UNCHANGED <<cache, cache_timestamps, call, loc, fut, hist>>
       ELSE /\ FinishCall(t, cur[t].status)
            /\ UNCHANGED wake
    /\ UNCHANGED <<now, last, otherVars, app, env, cur, mloc, result>>

\* get_quote 88: the one retry is sent.
RetryRequest(t) ==
    /\ pc[t] = "cooldown" /\ Ready(t)
    /\ \E s \in RetryStatuses :
         cur' = [cur EXCEPT ![t].status = s]
    /\ pc' = [pc EXCEPT ![t] = "resp2"]
    /\ wake' = [wake EXCEPT ![t] = now + Latency(cur[t].fetcher)]
    /\ req' = [req EXCEPT ![cur[t].key].attempts = @ + 1]
    /\ UNCHANGED <<cacheVars, last, otherVars, app, env, loc, fut, mloc, result, call, hist>>

\* get_quote 90-102: the retry's answer is final.
RetryResponse(t) ==
    /\ pc[t] = "resp2" /\ Ready(t)
    /\ FinishCall(t, cur[t].status)
    /\ UNCHANGED <<now, last, otherVars, app, env, wake, cur, mloc, result>>

(***************************************************************************)
(* get_full_market_snapshot, src/data_fetcher.py:673-708                   *)
(***************************************************************************)
\* The empty default of a group, lines 688, 694, 701.
Default(g) ==
    CASE g = "A" -> [quote |-> None, price_data |-> EmptyDict]
      [] g = "B" -> EmptyDict
      [] g = "C" -> EmptyList

\* How future.result(timeout) ended for main: "result", "exception", "timeout".
Seen(f) == IF f.state = "done" THEN "result" ELSE IF f.state = "raised" THEN "exception"
           ELSE "timeout"

\* Mutant: the events group has None, not the empty list, as its default.
ResultOrDefault_NewsNone(f, g) ==
    IF f.state = "done" THEN f.value ELSE IF g = "C" THEN None ELSE Default(g)

\* future.result(timeout) inside try/except Exception: the task's value, or
\* the group's default when the task raised or the wait timed out.
ResultOrDefault(f, g) == IF f.state = "done" THEN f.value ELSE Default(g)

\* lines 679-681 and the first result() call: the three tasks are submitted.
Submit ==
    /\ pc["main"] = "start"
    /\ pc' = [t \in DOMAIN pc |-> IF t = "main" THEN "wait_A" ELSE "start"]
    /\ mloc' = [mloc EXCEPT !.deadline = now + TimeoutA]
    /\ hist' = [hist EXCEPT !.start = [now |-> now, cache |-> cache, ts |-> cache_timestamps]]
    /\ UNCHANGED <<cacheVars, last, otherVars, app, env, wake, cur, loc, fut, result, call, req>>

\* lines 684-701: main waits for group g until its future is set or the
\* timeout given to result() has run out, then turns to the next group.
WaitResult(g, nextPc, nextTimeout) ==
    /\ pc["main"] = "wait_" \o g
    /\ fut[g].state # "pending" \/ now >= mloc.deadline
    /\ mloc' = [mloc EXCEPT !.got[g] = ResultOrDefault(fut[g], g),
                            !.seen[g] = Seen(fut[g]),
                            !.deadline = now + nextTimeout]
    /\ pc' = [pc EXCEPT !["main"] = nextPc]
    /\ UNCHANGED <<cacheVars, last, otherVars, app, env, wake, cur, loc, fut, result, call, req, hist>>

WaitA == WaitResult("A", "wait_B", TimeoutB)
WaitB == WaitResult("B", "wait_C", TimeoutC)
WaitC == WaitResult("C", "return", 0)

\* lines 703-708
Return ==
    /\ pc["main"] = "return"
    /\ result' = [xauusd |-> mloc.got["A"], correlations |-> mloc.got["B"],
                  news |-> mloc.got["C"]]
    /\ pc' = [pc EXCEPT !["main"] = "done"]
    /\ UNCHANGED <<cacheVars, last, otherVars, app, env, wake, cur, loc, fut, mloc, call, req, hist>>

\* Time passes while every thread is blocked: up to the next wake-up or deadline.
MainWaiting == pc["main"] \in {"wait_A", "wait_B", "wait_C"}
MainReady ==
    \/ pc["main"] \in {"start", "return"}
    \/ /\ MainWaiting
       /\ \E g \in Tasks : pc["main"] = "wait_" \o g
                           /\ (fut[g].state # "pending" \/ now >= mloc.deadline)
Pending == {wake[t] : t \in {u \in Tasks : pc[u] \notin {"idle", "done"}}}
               \cup (IF MainWaiting THEN {mloc.deadline} ELSE {})
Advance ==
    /\ ~MainReady
    /\ \A t \in Tasks : ~Ready(t)
    /\ Pending # {}
    /\ now' = Min(Pending)
    /\ UNCHANGED <<cache, cache_timestamps, last, otherVars, app, cycleVars>>

(***************************************************************************)
(* src/app.py: the module globals before start_background_updates          *)
(***************************************************************************)
UPDATE_INTERVAL == 900
CycleWindow == 6

\* No thread inside _get_cached_data, no analysis function applied yet.
IdleThr == <<>>
IdleOther ==
    /\ thr = IdleThr
    /\ op = "-"
    /\ arg = None
    /\ out = None

IdleApp == [running |-> FALSE, update_thread |-> None, current_snapshot |-> None,
            pc |-> "none", snapshot |-> None, cycle |-> 0, waited |-> 0,
            previous |-> "-", outcome |-> "-", before |-> None]

(***************************************************************************)
(* One cycle from every cache state and provider behaviour of Scenarios    *)
(***************************************************************************)
TTLOf(k) == IF k = QuoteKey THEN TTL_QUOTE ELSE IF k \in PriceKeys THEN TTL_PRICE_DATA
            ELSE IF k = NewsKey THEN TTL_NEWS ELSE TTL_CORRELATION

\* The state of each key's entry when the cycle starts.
Sel(s) == [k \in AllKeys |->
             IF k = QuoteKey THEN s.qa
             ELSE IF k \in PriceKeys THEN s.pa[CHOOSE i \in 1..Len(TIMEFRAMES) : PriceKey(i) = k]
             ELSE IF k \in KeysB THEN s.b ELSE s.c]

\* A fresh entry is one second short of its ttl, a stale one exactly ttl old.
StampOf(k, state) == IF state = "fresh" THEN StartTime - (TTLOf(k) - 1) ELSE StartTime - TTLOf(k)

Uniform(s) == \A i \in 1..Len(TIMEFRAMES) : s.pa[i] = s.qa

Scenarios ==
    {s \in [qa : EntryStates, pa : [1..Len(TIMEFRAMES) -> EntryStates], b : EntryStates,
            c : EntryStates, fault : Faults, fredUp : BOOLEAN,
            statuses : {{"ok"}, {"429"}, AllStatuses}] :
        \/ s.statuses = AllStatuses /\ s.b = "fresh" /\ s.c = "fresh"
              /\ s.fault = "none" /\ s.fredUp
        \/ s.statuses # AllStatuses /\ Uniform(s)}

\* Before get_full_market_snapshot is called: nothing submitted, nothing recorded.
IdlePc == [t \in Tasks \cup {"main"} |-> IF t = "main" THEN "start" ELSE "idle"]
IdleWake == [t \in Tasks |-> 0]
IdleCur == [t \in Tasks |-> NoCall]
IdleLoc == [t \in Tasks |->
              CASE t = "A" -> [stage |-> 0, quote |-> None, price_data |-> EmptyDict]
                [] t = "B" -> [stage |-> 1, correlation_data |-> EmptyDict]
                [] t = "C" -> [stage |-> 1, news |-> None]]
IdleFut == [t \in Tasks |-> [state |-> "pending", value |-> None]]
IdleMloc == [deadline |-> 0, got |-> [t \in Tasks |-> None], seen |-> [t \in Tasks |-> "-"]]
IdleReq == [k \in AllKeys |-> [attempts |-> 0, first |-> "-", cooled |-> FALSE, done |-> FALSE]]
NoRun == [done |-> FALSE]
IdleHist == [start |-> [now |-> -1, cache |-> EmptyDict, ts |-> EmptyDict],
             finishedAt |-> [t \in Tasks |-> -1], slept |-> {}, log |-> <<>>,
             first |-> NoRun]

IdleCycle ==
    /\ pc = IdlePc
    /\ wake = IdleWake
    /\ cur = IdleCur
    /\ loc = IdleLoc
    /\ fut = IdleFut
    /\ mloc = IdleMloc
    /\ result = None
    /\ call = IdleCur
    /\ req = IdleReq
    /\ hist = IdleHist

InitCycle ==
    \E s \in Scenarios :
        LET present == {k \in AllKeys : Sel(s)[k] # "absent"} IN
        /\ cache = [k \in present |-> "old"]
        /\ cache_timestamps = [k \in present |-> StampOf(k, Sel(s)[k])]
        /\ now = StartTime
        /\ last = [call |-> NoCall, prev |-> NoCall]
        /\ env = [statuses |-> s.statuses, fredUp |-> s.fredUp, fault |-> s.fault]
        /\ IdleCycle
        /\ app = IdleApp
        /\ IdleOther

NextCycle ==
    \/ Submit
    \/ \E t \in Tasks : TaskFault(t)
    \/ \E t \in Tasks : TaskStart(t)
    \/ TimeframeCheck
    \/ \E t \in Tasks : CachedCallStart(t)
    \/ \E t \in Tasks : Response(t)
    \/ \E t \in Tasks : RetryRequest(t)
    \/ \E t \in Tasks : RetryResponse(t)
    \/ WaitA
    \/ WaitB
    \/ WaitC
    \/ Return
    \/ Advance

SpecCycle == InitCycle /\ [][NextCycle]_vars

(***************************************************************************)
(* Two cycles from one and the same cache state, to compare what a group   *)
(* contributes to the composite when only the other groups behave          *)
(* differently.  The first cycle runs until the caller and all three tasks *)
(* are over; SecondRun keeps its outcome in hist.first and puts the cache  *)
(* and the clock back to where the first cycle started.                    *)
(***************************************************************************)
AllOver == \A t \in Tasks \cup {"main"} : pc[t] = "done"

SecondRun ==
    /\ AllOver
    /\ ~hist.first.done
    /\ hist' = [IdleHist EXCEPT !.first =
                  [done |-> TRUE, result |-> result, fut |-> fut,
                   took |-> [t \in Tasks |-> hist.finishedAt[t] - hist.start.now]]]
    /\ cache' = hist.start.cache
    /\ cache_timestamps' = hist.start.ts
    /\ now' = hist.start.now
    /\ pc' = IdlePc
    /\ wake' = IdleWake
    /\ cur' = IdleCur
    /\ loc' = IdleLoc
    /\ fut' = IdleFut
    /\ mloc' = IdleMloc
    /\ result' = None
    /\ call' = IdleCur
    /\ req' = IdleReq
    /\ UNCHANGED <<last, otherVars, app, env>>

PairScenarios ==
    {s \in [qa : {"stale", "absent"}, pa : [1..Len(TIMEFRAMES) -> EntryStates], b : {"fresh"},
            c : {"stale"}, fault : {"none", "B"}, fredUp : {TRUE},
            statuses : {{"ok", "429"}}] : Uniform(s)}

InitPair ==
    \E s \in PairScenarios :
        LET present == {k \in AllKeys : Sel(s)[k] # "absent"} IN
        /\ cache = [k \in present |-> "old"]
        /\ cache_timestamps = [k \in present |-> StampOf(k, Sel(s)[k])]
        /\ now = StartTime
        /\ last = [call |-> NoCall, prev |-> NoCall]
        /\ env = [statuses |-> s.statuses, fredUp |-> s.fredUp, fault |-> s.fault]
        /\ IdleCycle
        /\ app = IdleApp
        /\ IdleOther

NextPair == NextCycle \/ SecondRun

SpecPair == InitPair /\ [][NextPair]_vars

(***************************************************************************)
(* src/app.py: start_background_updates and background_update_task         *)
(***************************************************************************)
\* Mutant: the exception ends the thread.
AfterException_Exit == "exit"

\* Where the loop goes after the except block, line 42-48: to the sleep.
AfterException == "sleep"

\* start_background_updates, lines 116-124: only when there is no live thread
StartBackgroundUpdates ==
    /\ app.update_thread = None \/ app.update_thread = "dead"
    /\ app' = [app EXCEPT !.running = TRUE, !.update_thread = "alive", !.pc = "test"]
    /\ UNCHANGED <<cacheVars, last, otherVars, cycleVars>>

\* line 31: while running
LoopTest ==
    /\ app.pc = "test"
    /\ app' = IF app.running
              THEN [app EXCEPT !.pc = "generate", !.cycle = (@ + 1) % CycleWindow,
                               !.previous = app.outcome, !.outcome = "-",
                               !.before = app.current_snapshot]
              ELSE [app EXCEPT !.pc = "exit", !.update_thread = "dead"]
    /\ UNCHANGED <<cacheVars, last, otherVars, cycleVars>>

\* line 34: generate_market_snapshot() returns a snapshot or raises
GenerateSnapshot ==
    /\ app.pc = "generate"
    /\ \/ app' = [app EXCEPT !.snapshot = <<"snapshot", app.cycle>>, !.pc = "assign"]
       \/ app' = [app EXCEPT !.pc = "except", !.outcome = "generate raised"]
    /\ UNCHANGED <<cacheVars, last, otherVars, cycleVars>>

\* line 35: current_snapshot = snapshot
AssignSnapshot ==
    /\ app.pc = "assign"
    /\ app' = [app EXCEPT !.current_snapshot = app.snapshot, !.pc = "emit"]
    /\ UNCHANGED <<cacheVars, last, otherVars, cycleVars>>

\* lines 38-40: socketio.emit(...) returns or raises
EmitUpdate ==
    /\ app.pc = "emit"
    /\ \/ app' = [app EXCEPT !.pc = "sleep", !.outcome = "ok"]
       \/ app' = [app EXCEPT !.pc = "except", !.outcome = "emit raised"]
    /\ UNCHANGED <<cacheVars, last, otherVars, cycleVars>>

\* lines 42-45: except Exception: print, traceback
CatchException ==
    /\ app.pc = "except"
    /\ app' = [app EXCEPT !.pc = AfterException]
    /\ UNCHANGED <<cacheVars, last, otherVars, cycleVars>>

\* line 48: time.sleep(config.UPDATE_INTERVAL)
SleepInterval ==
    /\ app.pc = "sleep"
    /\ app' = [app EXCEPT !.pc = "test", !.waited = UPDATE_INTERVAL]
    /\ UNCHANGED <<cacheVars, last, otherVars, cycleVars>>

\* one step of the background thread
BackgroundStep ==
    \/ LoopTest
    \/ GenerateSnapshot
    \/ AssignSnapshot
    \/ EmitUpdate
    \/ CatchException
    \/ SleepInterval

InitLoop ==
    /\ cache = EmptyDict
    /\ cache_timestamps = EmptyDict
    /\ now = 0
    /\ last = [call |-> NoCall, prev |-> NoCall]
    /\ env = [statuses |-> {"ok"}, fredUp |-> TRUE, fault |-> "none"]
    /\ IdleCycle
    /\ app = IdleApp
    /\ IdleOther

NextLoop == StartBackgroundUpdates \/ BackgroundStep

\* The background thread is a daemon thread of its own: it keeps being
\* scheduled, and every call it makes returns or raises.
SpecLoop == InitLoop /\ [][NextLoop]_vars /\ WF_vars(StartBackgroundUpdates) /\ WF_vars(BackgroundStep)

(***************************************************************************)
(* src/app.py: the handlers that run beside the background thread          *)
(***************************************************************************)
\* `if current_snapshot:` (lines 72 and 94): None is falsy, and a snapshot is
\* the dict generate_market_snapshot returns, which always has its keys.
HasSnapshot(snapshot) == snapshot # None

\* What handle_manual_update leaves in current_snapshot, lines 106-113: the
\* function has no `global` statement and assigns only its local snapshot.
ManualUpdateStores(snapshot) == app.current_snapshot

\* get_snapshot, lines 69-75
GetSnapshot ==
    /\ op' = "get_snapshot"
    /\ out' = IF HasSnapshot(app.current_snapshot)
              THEN [status |-> 200, body |-> app.current_snapshot]
              ELSE [status |-> 503, body |-> "No data available yet"]
    /\ UNCHANGED <<cacheVars, last, cycleVars, app, thr, arg>>

\* handle_manual_update, lines 106-113: generate_market_snapshot() returns or
\* raises; the reply is market_update or error.  The snapshot built on demand
\* carries -1 where those of the background thread carry their cycle.
HandleManualUpdate ==
    /\ op' = "handle_manual_update"
    /\ \/ /\ out' = [event |-> "market_update", body |-> <<"snapshot", -1>>]
          /\ app' = [app EXCEPT !.current_snapshot =
                                   ManualUpdateStores(<<"snapshot", -1>>)]
       \/ /\ out' = [event |-> "error", body |-> "generate raised"]
          /\ app' = app
    /\ UNCHANGED <<cacheVars, last, cycleVars, thr, arg>>

InitServe == InitLoop

NextServe == StartBackgroundUpdates \/ BackgroundStep \/ GetSnapshot \/ HandleManualUpdate

SpecServe == InitServe /\ [][NextServe]_vars

\* MarketDataAggregator.__init__, src/data_fetcher.py:509-515
Init ==
    /\ cache = EmptyDict
    /\ cache_timestamps = EmptyDict
    /\ now = 0
    /\ last = [call |-> NoCall, prev |-> NoCall]
    /\ env = [statuses |-> {"ok"}, fredUp |-> TRUE, fault |-> "none"]
    /\ IdleCycle
    /\ app = IdleApp
    /\ IdleOther

Next == DirectCall \/ Tick

Spec == Init /\ [][Next]_vars

(***************************************************************************)
(* Numbers of the analysis code.  A Python float is modelled by the exact  *)
(* rational <<numerator, denominator>> in lowest terms (denominator > 0),  *)
(* so that the code's comparisons with 0.001, 0.5 or -0.1 are compared as  *)
(* written; rounding of the binary representation is not modelled.         *)
(***************************************************************************)
Abs(n) == IF n < 0 THEN -n ELSE n

\* None where a number is expected
Null == <<>>

RECURSIVE GCD(_, _)
GCD(a, b) == IF b = 0 THEN a ELSE GCD(b, a % b)

Rat(n, d) ==
    LET g == GCD(Abs(n), Abs(d))
        s == IF d < 0 THEN -1 ELSE 1 IN
    IF n = 0 THEN <<0, 1>> ELSE <<(s * n) \div g, (s * d) \div g>>

R(n) == <<n, 1>>
RAdd(x, y) == Rat(x[1] * y[2] + y[1] * x[2], x[2] * y[2])
RSub(x, y) == Rat(x[1] * y[2] - y[1] * x[2], x[2] * y[2])
RMul(x, y) == Rat(x[1] * y[1], x[2] * y[2])
RDiv(x, y) == Rat(x[1] * y[2], x[2] * y[1])
RLt(x, y) == x[1] * y[2] < y[1] * x[2]
RGt(x, y) == RLt(y, x)
RLe(x, y) == ~RLt(y, x)
RAbs(x) == <<Abs(x[1]), x[2]>>
RMax(x, y) == IF RLt(x, y) THEN y ELSE x

\* sum(list[lo..hi]); the halves are added up apart, which gives the same
\* exact sum as adding from the left
RECURSIVE RSumRange(_, _, _)
RSumRange(s, lo, hi) ==
    IF lo > hi THEN R(0)
    ELSE IF lo = hi THEN s[lo]
    ELSE LET mid == (lo + hi) \div 2 IN RAdd(RSumRange(s, lo, mid), RSumRange(s, mid + 1, hi))

\* sum(list)
RSum(s) == RSumRange(s, 1, Len(s))

\* list[-n:]
LastN(s, n) == IF n >= Len(s) THEN s ELSE SubSeq(s, Len(s) - n + 1, Len(s))

\* list[:n]
FirstN(s, n) == IF n >= Len(s) THEN s ELSE SubSeq(s, 1, n)

\* sorted(list): insertion into an ascending list
RECURSIVE InsertAsc(_, _)
InsertAsc(x, s) ==
    IF s = <<>> THEN <<x>>
    ELSE IF RLt(s[1], x) THEN <<s[1]>> \o InsertAsc(x, Tail(s))
    ELSE <<x>> \o s

RECURSIVE Sorted(_)
Sorted(s) == IF s = <<>> THEN <<>> ELSE InsertAsc(s[1], Sorted(Tail(s)))

Reverse(s) == [i \in 1..Len(s) |-> s[Len(s) + 1 - i]]

\* sorted(list, reverse=True)
SortedDesc(s) == Reverse(Sorted(s))

RMinOf(s) == Sorted(s)[1]
RMaxOf(s) == Sorted(s)[Len(s)]
Elems(s) == {s[i] : i \in 1..Len(s)}

(***************************************************************************)
(* TechnicalAnalyzer, src/technical_analysis.py.  A candle is a record     *)
(* [high, low, close] of numbers; data is a sequence of candles, oldest    *)
(* first.                                                                  *)
(***************************************************************************)
RSI_PERIOD == 14
RSI_OVERBOUGHT == 70
RSI_OVERSOLD == 30
MA_PERIODS == <<50, 200>>
MinCandles == 20
MinLevelCandles == 5
Lookback == 50
MaxLevels == 5
threshold == Rat(1, 1000)

Closes(data) == [i \in 1..Len(data) |-> data[i].close]
Highs(data) == [i \in 1..Len(data) |-> data[i].high]
Lows(data) == [i \in 1..Len(data) |-> data[i].low]

\* lines 25-31: gains[i] and losses[i] of the change from closes[i] to closes[i+1]
Gains(closes) ==
    [i \in 1..(Len(closes) - 1) |-> RMax(RSub(closes[i + 1], closes[i]), R(0))]
Losses(closes) ==
    [i \in 1..(Len(closes) - 1) |-> RMax(RSub(closes[i], closes[i + 1]), R(0))]

\* Mutant: the average loss of zero is not treated apart.
CalculateRsi_NoZeroLossCase(data, period) ==
    IF Len(data) < period + 1 THEN Null
    ELSE LET avg_gain == RDiv(RSum(LastN(Gains(Closes(data)), period)), R(period))
             avg_loss == RDiv(RSum(LastN(Losses(Closes(data)), period)), R(period)) IN
         IF avg_loss = R(0) THEN R(0)
         ELSE RSub(R(100), RDiv(R(100), RAdd(R(1), RDiv(avg_gain, avg_loss))))

\* calculate_rsi, lines 16-46
CalculateRsi(data, period) ==
    IF Len(data) < period + 1 THEN Null
    ELSE LET gains == Gains(Closes(data))
             losses == Losses(Closes(data)) IN
         IF Len(gains) < period THEN Null
         ELSE LET avg_gain == RDiv(RSum(LastN(gains, period)), R(period))
                  avg_loss == RDiv(RSum(LastN(losses, period)), R(period)) IN
              IF avg_loss = R(0) THEN R(100)
              ELSE LET rs == RDiv(avg_gain, avg_loss) IN
                   RSub(R(100), RDiv(R(100), RAdd(R(1), rs)))

\* calculate_moving_average, lines 48-54
CalculateMovingAverage(data, period) ==
    IF Len(data) < period THEN Null
    ELSE RDiv(RSum(Closes(LastN(data, period))), R(period))

\* calculate_moving_averages, lines 56-61: period -> average or None
CalculateMovingAverages(data, periods) ==
    [p \in Elems(periods) |-> CalculateMovingAverage(data, p)]

\* _cluster_levels, lines 110-112: the loop over the sorted levels from the
\* i-th on, `clustered` being the clusters kept so far
RECURSIVE ClusterFrom(_, _, _)
ClusterFrom(levels, i, clustered) ==
    IF i > Len(levels) THEN clustered
    ELSE LET level == levels[i]
             lastc == clustered[Len(clustered)] IN
         IF RGt(RDiv(RAbs(RSub(level, lastc)), lastc), threshold)
         THEN ClusterFrom(levels, i + 1, Append(clustered, level))
         ELSE ClusterFrom(levels, i + 1, clustered)

\* _cluster_levels, lines 102-114
ClusterLevels(levels) ==
    IF levels = <<>> THEN <<>>
    ELSE LET sl == Sorted(levels) IN ClusterFrom(sl, 2, <<sl[1]>>)

\* lines 78-87: the local maxima of highs / minima of lows, in index order
\* (Python index i from 2 to len-3 is index i+1 here)
RECURSIVE Peaks(_, _, _)
Peaks(v, i, up) ==
    IF i > Len(v) - 2 THEN <<>>
    ELSE LET is == IF up
                   THEN RGt(v[i], v[i-1]) /\ RGt(v[i], v[i-2])
                        /\ RGt(v[i], v[i+1]) /\ RGt(v[i], v[i+2])
                   ELSE RLt(v[i], v[i-1]) /\ RLt(v[i], v[i-2])
                        /\ RLt(v[i], v[i+1]) /\ RLt(v[i], v[i+2]) IN
         (IF is THEN <<v[i]>> ELSE <<>>) \o Peaks(v, i + 1, up)

\* identify_support_resistance, lines 63-100
IdentifySupportResistance(data) ==
    IF Len(data) < MinLevelCandles THEN [resistance |-> <<>>, support |-> <<>>]
    ELSE LET recent_data == LastN(data, IF Lookback < Len(data) THEN Lookback ELSE Len(data))
             highs == Highs(recent_data)
             lows == Lows(recent_data)
             resistance_levels == Append(Peaks(highs, 3, TRUE), RMaxOf(highs))
             support_levels == Append(Peaks(lows, 3, FALSE), RMinOf(lows)) IN
         [resistance |-> FirstN(SortedDesc(ClusterLevels(resistance_levels)), MaxLevels),
          support |-> FirstN(SortedDesc(ClusterLevels(support_levels)), MaxLevels)]

\* `if x:` on a number or None
NumTruthy(x) == x # Null /\ x # R(0)

\* dict.get(key, default)
Get(d, k, default) == IF k \in DOMAIN d THEN d[k] ELSE default

\* Mutant: a level equal to the price counts as above it.
Above_NotStrict(s, price) == SelectSeq(s, LAMBDA r : RLe(price, r))

\* [r for r in levels if r > price] and [s for s in levels if s < price]
RECURSIVE Above(_, _)
Above(s, price) ==
    IF s = <<>> THEN <<>>
    ELSE (IF RGt(s[1], price) THEN <<s[1]>> ELSE <<>>) \o Above(Tail(s), price)

RECURSIVE Below(_, _)
Below(s, price) ==
    IF s = <<>> THEN <<>>
    ELSE (IF RLt(s[1], price) THEN <<s[1]>> ELSE <<>>) \o Below(Tail(s), price)

\* find_nearest_levels, lines 116-134
FindNearestLevels(current_price, levels) ==
    LET resistance_levels == Above(levels.resistance, current_price)
        support_levels == Below(levels.support, current_price)
        nearest_resistance == IF resistance_levels # <<>> THEN RMinOf(resistance_levels) ELSE Null
        nearest_support == IF support_levels # <<>> THEN RMaxOf(support_levels) ELSE Null
        keys == (IF NumTruthy(nearest_resistance) THEN {"resistance"} ELSE {})
                \cup (IF NumTruthy(nearest_support) THEN {"support"} ELSE {}) IN
    [k \in keys |->
        IF k = "resistance"
        THEN <<nearest_resistance, RMul(RSub(nearest_resistance, current_price), R(10))>>
        ELSE <<nearest_support, RMul(RSub(current_price, nearest_support), R(10))>>]

\* calculate_pivot_points, lines 136-156
CalculatePivotPoints(data) ==
    IF Len(data) < 2 THEN EmptyDict
    ELSE LET prev_day == data[Len(data) - 1]
             high == prev_day.high
             low == prev_day.low
             pivot == RDiv(RAdd(RAdd(high, low), prev_day.close), R(3)) IN
         [pivot |-> pivot,
          r1 |-> RSub(RMul(R(2), pivot), low),
          r2 |-> RAdd(pivot, RSub(high, low)),
          r3 |-> RAdd(high, RMul(R(2), RSub(pivot, low))),
          s1 |-> RSub(RMul(R(2), pivot), high),
          s2 |-> RSub(pivot, RSub(high, low)),
          s3 |-> RSub(low, RMul(R(2), RSub(high, pivot)))]

\* Mutant: a price equal to a moving average still counts as above it.
GetMaAlignment_NotStrict(mas, current_price) ==
    LET ma_values == {p \in DOMAIN mas : mas[p] # Null} IN
    IF ma_values = {} THEN "Neutral"
    ELSE IF \A p \in ma_values : RLe(mas[p], current_price) THEN "Bullish"
    ELSE IF \A p \in ma_values : RLt(current_price, mas[p]) THEN "Bearish"
    ELSE "Neutral"

\* get_ma_alignment, lines 158-177
GetMaAlignment(mas, current_price) ==
    IF DOMAIN mas = {} THEN "Neutral"
    ELSE LET ma_values == {p \in DOMAIN mas : mas[p] # Null} IN
         IF ma_values = {} THEN "Neutral"
         ELSE LET above_all == \A p \in ma_values : RGt(current_price, mas[p])
                  below_all == \A p \in ma_values : RLt(current_price, mas[p]) IN
              IF above_all THEN "Bullish"
              ELSE IF below_all THEN "Bearish"
              ELSE "Neutral"

\* get_rsi_status, lines 179-188
GetRsiStatus(rsi_value) ==
    IF rsi_value = Null THEN "N/A"
    ELSE IF RGt(rsi_value, R(RSI_OVERBOUGHT)) THEN "Overbought"
    ELSE IF RLt(rsi_value, R(RSI_OVERSOLD)) THEN "Oversold"
    ELSE "Neutral"

InsufficientData == [error |-> "Insufficient data"]

\* An Optional[List]: None, or the list of candles.
NoneData == [none |-> TRUE]
Some(candles) == [candles |-> candles]

\* Mutant: nineteen candles are enough.
TooShort_OneLess(data) == data = NoneData \/ Len(data.candles) < MinCandles - 1

\* line 192: data is None or len(data) < 20
TooShort(data) == data = NoneData \/ Len(data.candles) < MinCandles

\* lines 195-219 on the candles d, with config.MA_PERIODS = periods
Analysis(d, timeframe, periods) ==
    LET current_price == d[Len(d)].close
        rsi == CalculateRsi(d, RSI_PERIOD)
        mas == CalculateMovingAverages(d, periods)
        levels == IdentifySupportResistance(d)
        pivots == CalculatePivotPoints(d)
        nearest == FindNearestLevels(current_price, levels)
        price_1h_ago == IF Len(d) >= 5 THEN d[Len(d) - 4].close ELSE current_price
        price_change_1h == RMul(RDiv(RSub(current_price, price_1h_ago), price_1h_ago), R(100)) IN
    [timeframe |-> timeframe,
     current_price |-> current_price,
     price_change_1h |-> price_change_1h,
     rsi |-> rsi,
     rsi_status |-> GetRsiStatus(rsi),
     mas |-> mas,
     ma_alignment |-> GetMaAlignment(mas, current_price),
     support_resistance |-> levels,
     nearest_levels |-> nearest,
     pivot_points |-> pivots]

\* analyze_timeframe, lines 190-219
AnalyzeTimeframe(data, timeframe, periods) ==
    IF TooShort(data) THEN InsufficientData ELSE Analysis(data.candles, timeframe, periods)

(***************************************************************************)
(* MarketAnalysisEngine, src/market_analysis.py.  A correlation reading is *)
(* a record of numbers (price or close, change, percent_change); an event  *)
(* is a record [title, time, impact], time being its scheduled time on the *)
(* clock `now`.  The arrows of "direction" are written up, down, flat.     *)
(***************************************************************************)
YIELD_ALERT_BPS == 5
ALERT_PROXIMITY_PERCENT == Rat(2, 10)
DriverEventMinutes == 60
AlertEventMinutes == 30

\* float(reading.get("price", reading.get("close", 0)))
PriceOf(reading) == Get(reading, "price", Get(reading, "close", R(0)))
ChangeOf(reading) == Get(reading, "change", R(0))
PercentChangeOf(reading) == Get(reading, "percent_change", R(0))

Direction(x) == IF RGt(x, R(0)) THEN "up" ELSE IF RLt(x, R(0)) THEN "down" ELSE "flat"

\* lines 68-84
YieldRecord(us10y) ==
    [price |-> PriceOf(us10y),
     change_bps |-> RMul(PercentChangeOf(us10y), R(100)),
     pressure |-> IF RGt(ChangeOf(us10y), R(0)) THEN "Down"
                  ELSE IF RLt(ChangeOf(us10y), R(0)) THEN "Up" ELSE "Neutral",
     direction |-> Direction(ChangeOf(us10y))]

\* lines 87-98 and 101-112
ShortLongYieldRecord(r) ==
    [price |-> PriceOf(r),
     change_bps |-> RMul(PercentChangeOf(r), R(100)),
     direction |-> Direction(ChangeOf(r))]

\* Mutant: a spread of exactly zero counts as Normal.
YieldCurveStatus_ZeroNormal(spread) ==
    IF RLe(R(0), spread) THEN "Normal" ELSE IF RLt(spread, Rat(-1, 10)) THEN "Inverted" ELSE "Flat"

\* line 119
YieldCurveStatus(spread) ==
    IF RGt(spread, R(0)) THEN "Normal" ELSE IF RLt(spread, Rat(-1, 10)) THEN "Inverted" ELSE "Flat"

\* lines 123-138
VixRecord(vix) ==
    LET price == PriceOf(vix) IN
    [price |-> price,
     percent_change |-> PercentChangeOf(vix),
     fear_level |-> IF RGt(price, R(30)) THEN "Extreme Fear" ELSE IF RGt(price, R(20)) THEN "High Fear"
                    ELSE IF RGt(price, R(15)) THEN "Moderate" ELSE "Low Fear",
     haven_demand |-> IF RGt(price, R(30)) THEN "Very High" ELSE IF RGt(price, R(20)) THEN "High"
                      ELSE IF RGt(price, R(15)) THEN "Moderate" ELSE "Low",
     direction |-> Direction(PercentChangeOf(vix))]

\* lines 146, 163, 182, 198
PressureStrength(percent_change) ==
    IF RGt(RAbs(percent_change), Rat(5, 10)) THEN "Strong" ELSE "Weak"

\* lines 147, 164, 183, 199: the strength and the label of the pressure string
DollarPressure(name, percent_change) ==
    IF name = "EUR/USD" /\ RGt(percent_change, R(0))
    THEN <<PressureStrength(percent_change), "Direct">>
    ELSE <<PressureStrength(percent_change), "Inverse">>

\* Mutant: USD/JPY comes before EUR/USD.
DollarPriority_JpyFirst == <<"DXY", "USD/EUR", "USD/JPY", "EUR/USD">>

\* the order of the if/elif chain, lines 141, 156, 174, 192
DollarPriority == <<"DXY", "USD/EUR", "EUR/USD", "USD/JPY">>

\* lines 141-207: the record of the first reading of the chain that is present
DollarRecord(correlation_data) ==
    LET present == SelectSeq(DollarPriority, LAMBDA n : n \in DOMAIN correlation_data)
        name == present[1]
        reading == correlation_data[name]
        base == [price |-> PriceOf(reading),
                 percent_change |-> PercentChangeOf(reading),
                 pressure |-> DollarPressure(name, PercentChangeOf(reading)),
                 direction |-> Direction(PercentChangeOf(reading))]
        withSymbol == IF name = "DXY" THEN base ELSE Put(base, "symbol", name) IN
    IF name \in {"DXY", "USD/EUR"} THEN Put(withSymbol, "source", "FRED") ELSE withSymbol

\* Mutant: GBP/USD does not stand in for SPX.
RiskPresent_SpxOnly(correlation_data) == "SPX" \in DOMAIN correlation_data

\* lines 210 and 221
RiskPresent(correlation_data) ==
    "SPX" \in DOMAIN correlation_data \/ "GBP/USD" \in DOMAIN correlation_data

\* lines 210-235
RiskRecord(correlation_data) ==
    LET name == IF "SPX" \in DOMAIN correlation_data THEN "SPX" ELSE "GBP/USD"
        pct == PercentChangeOf(correlation_data[name])
        base == [percent_change |-> pct,
                 haven_demand |-> IF RGt(pct, Rat(5, 10)) THEN "Low"
                                  ELSE IF RLt(pct, Rat(-5, 10)) THEN "High" ELSE "Moderate",
                 direction |-> Direction(pct)] IN
    IF name = "SPX" THEN base ELSE Put(base, "symbol", name)

\* lines 238-247
BtcRecord(btc) ==
    [price |-> PriceOf(btc), percent_change |-> PercentChangeOf(btc),
     direction |-> Direction(PercentChangeOf(btc))]

\* line 115
CurvePresent(analysis) == "yield_2y" \in DOMAIN analysis /\ "yield" \in DOMAIN analysis

\* analyze_correlations, lines 63-249
AnalyzeCorrelations(correlation_data) ==
    LET has(n) == n \in DOMAIN correlation_data
        a0 == EmptyDict
        a1 == IF has("US10Y") THEN Put(a0, "yield", YieldRecord(correlation_data["US10Y"])) ELSE a0
        a2 == IF has("US2Y") THEN Put(a1, "yield_2y", ShortLongYieldRecord(correlation_data["US2Y"])) ELSE a1
        a3 == IF has("US30Y") THEN Put(a2, "yield_30y", ShortLongYieldRecord(correlation_data["US30Y"])) ELSE a2
        a4 == IF CurvePresent(a3)
              THEN LET spread == RSub(a3["yield"].price, a3["yield_2y"].price) IN
                   Put(a3, "yield_curve", [spread |-> spread, status |-> YieldCurveStatus(spread)])
              ELSE a3
        a5 == IF has("VIX") THEN Put(a4, "vix", VixRecord(correlation_data["VIX"])) ELSE a4
        a6 == IF \E i \in 1..Len(DollarPriority) : has(DollarPriority[i])
              THEN Put(a5, "dxy", DollarRecord(correlation_data)) ELSE a5
        a7 == IF RiskPresent(correlation_data) THEN Put(a6, "risk", RiskRecord(correlation_data)) ELSE a6
        a8 == IF has("BTC/USD") THEN Put(a7, "btc", BtcRecord(correlation_data["BTC/USD"])) ELSE a7 IN
    a8

\* `if news_events:` - None and the empty list alike
HasEvents(news_events) == news_events # <<>>

\* (event_time - datetime.now(pytz.UTC)).total_seconds(), lines 260, 343, 364;
\* time_until is this number divided by 60
SecondsUntil(event) == event.time - now

\* int(n / d) of Python: the fraction is dropped, towards zero
IntTrunc(n, d) == IF n >= 0 THEN n \div d ELSE -((-n) \div d)

\* Mutant: the RSI rule is tried before the event rule.
DeterminePrimaryDriver_RsiFirst(technical_data, news_events, correlation_analysis) ==
    IF Get(technical_data, "rsi_status", None) \in {"Overbought", "Oversold"} THEN "Technical"
    ELSE IF HasEvents(news_events) /\ SecondsUntil(news_events[1]) < DriverEventMinutes * 60
    THEN "Fundamental"
    ELSE IF "yield" \in DOMAIN correlation_analysis
            /\ RGt(RAbs(correlation_analysis["yield"].change_bps), R(5)) THEN "Fundamental"
    ELSE IF "dxy" \in DOMAIN correlation_analysis
            /\ RGt(RAbs(correlation_analysis["dxy"].percent_change), Rat(5, 10)) THEN "Sentiment"
    ELSE "Technical"

\* determine_primary_driver, lines 251-277
DeterminePrimaryDriver(technical_data, news_events, correlation_analysis) ==
    IF HasEvents(news_events) /\ SecondsUntil(news_events[1]) < DriverEventMinutes * 60
    THEN "Fundamental"
    ELSE IF Get(technical_data, "rsi_status", None) \in {"Overbought", "Oversold"} THEN "Technical"
    ELSE IF "yield" \in DOMAIN correlation_analysis
            /\ RGt(RAbs(correlation_analysis["yield"].change_bps), R(5)) THEN "Fundamental"
    ELSE IF "dxy" \in DOMAIN correlation_analysis
            /\ RGt(RAbs(correlation_analysis["dxy"].percent_change), Rat(5, 10)) THEN "Sentiment"
    ELSE "Technical"

\* determine_momentum, lines 279-300
DetermineMomentum(technical_data, correlation_analysis) ==
    LET price_change == Get(technical_data, "price_change_1h", R(0))
        direction == IF RGt(price_change, R(0)) THEN "Bullish"
                     ELSE IF RLt(price_change, R(0)) THEN "Bearish" ELSE "Neutral"
        abs_change == RAbs(price_change)
        strength == IF RGt(abs_change, Rat(5, 10)) THEN "Strong"
                    ELSE IF RGt(abs_change, Rat(2, 10)) THEN "Moderate" ELSE "Weak" IN
    [strength |-> strength, direction |-> direction, description |-> strength \o " " \o direction]

\* Mutant: any nearest level raises the alert, however far it is.
ProximityAlert_AnyDistance(current_price, nearest_levels, side, text) ==
    IF side \in DOMAIN nearest_levels THEN <<text>> ELSE <<>>

\* lines 310-320: the proximity alert for one side
ProximityAlert(current_price, nearest_levels, side, text) ==
    IF side \in DOMAIN nearest_levels
       /\ RLt(RMul(RDiv(RAbs(RSub(current_price, nearest_levels[side][1])), current_price), R(100)),
              ALERT_PROXIMITY_PERCENT)
    THEN <<text>> ELSE <<>>

\* check_alerts, lines 302-350
CheckAlerts(technical_data, correlation_analysis, news_events) ==
    LET current_price == Get(technical_data, "current_price", R(0))
        nearest_levels == Get(technical_data, "nearest_levels", EmptyDict)
        alerts ==
            ProximityAlert(current_price, nearest_levels, "resistance", "Approaching Resistance")
            \o ProximityAlert(current_price, nearest_levels, "support", "Approaching Support")
            \o (IF "yield" \in DOMAIN correlation_analysis
                   /\ RGt(RAbs(correlation_analysis["yield"].change_bps), R(YIELD_ALERT_BPS))
                THEN <<"Large Yield Move">> ELSE <<>>)
            \o (IF "dxy" \in DOMAIN correlation_analysis
                   /\ RGt(RAbs(correlation_analysis["dxy"].percent_change), R(1))
                THEN <<"Significant DXY Movement">> ELSE <<>>)
            \o (IF HasEvents(news_events) /\ SecondsUntil(news_events[1]) < AlertEventMinutes * 60
                THEN <<"High-Impact News">> ELSE <<>>) IN
    IF alerts # <<>> THEN alerts ELSE <<"None">>

\* get_next_catalyst, lines 352-371
GetNextCatalyst(news_events) ==
    IF ~HasEvents(news_events) THEN NoneData
    ELSE [event |-> news_events[1].title, minutes_until |-> IntTrunc(SecondsUntil(news_events[1]), 60),
          impact |-> news_events[1].impact]

\* lines 398-421: the snapshot built from the analyses; the clock fields
\* (timestamp, session, next_session_overlap) are left out.
BuildSnapshot(xauusd_data, technical_data, correlation_analysis, news_events) ==
    [xauusd |-> [price |-> Get(technical_data, "current_price", R(0)),
                 change_1h |-> Get(technical_data, "price_change_1h", R(0)),
                 quote |-> xauusd_data.quote],
     primary_driver |-> DeterminePrimaryDriver(technical_data, news_events, correlation_analysis),
     momentum |-> DetermineMomentum(technical_data, correlation_analysis),
     technical |-> technical_data,
     correlations |-> correlation_analysis,
     news |-> news_events,
     next_catalyst |-> GetNextCatalyst(news_events),
     alerts |-> CheckAlerts(technical_data, correlation_analysis, news_events)]

\* generate_market_snapshot, lines 373-423, on what get_full_market_snapshot
\* returned
GenerateMarketSnapshot(market_data, periods) ==
    BuildSnapshot(market_data.xauusd,
                  AnalyzeTimeframe(Get(market_data.xauusd.price_data, "1h", NoneData), "1h", periods),
                  AnalyzeCorrelations(market_data.correlations),
                  market_data.news)

(***************************************************************************)
(* The analysis functions applied to bounded inputs: Init draws one call   *)
(* (function and arguments), the action of that function applies it.       *)
(***************************************************************************)
MaxLen == 4
MaxLevelCount == 3
MaxWaves == 6
LongLen == 25

\* n hundredths
D(n) == Rat(n, 100)
Candle(h, l, c) == [high |-> h, low |-> l, close |-> c]
Flat(v) == Candle(v, v, v)

\* all sequences over S of length 0..n
SeqsUpTo(S, n) == UNION {[1..k -> S] : k \in 0..n}

\* series with closes base+step, base+2*step, ...
Ramp(n, base, step) == [i \in 1..n |-> Flat(R(base + i * step))]

\* calculate_rsi: every close series up to MaxLen with periods 1..3, and
\* rising, falling, flat and mixed series around period 14
RsiInputs ==
    {[fn |-> "calculate_rsi", data |-> [i \in 1..Len(s) |-> Flat(R(s[i]))], period |-> p] :
        s \in SeqsUpTo({1, 2, 3}, MaxLen), p \in 1..3}
    \cup {[fn |-> "calculate_rsi", data |-> Ramp(n, 1000, st), period |-> RSI_PERIOD] :
            n \in 12..17, st \in {-1, 0, 1}}
    \cup {[fn |-> "calculate_rsi",
           data |-> [i \in 1..n |-> Flat(R(1000 + (IF i % 3 = 0 THEN k ELSE 0)))],
           period |-> RSI_PERIOD] : n \in 15..17, k \in {-2, 1, 3}}

LevelValues == {D(10000), D(10005), D(10008), D(10016), D(10500)}

\* _cluster_levels: every list of up to MaxLevelCount levels
ClusterInputs ==
    {[fn |-> "_cluster_levels", levels |-> s] : s \in SeqsUpTo(LevelValues, MaxLevelCount)}

\* a candle around the value v (dollars)
Around(v) == Candle(R(v), R(v - 10), R(v - 5))

\* k dips, each two candles apart from the next and ten dollars lower than
\* the one before, between candles at 2000
Waves(k) == [i \in 1..(3 * k + 2) |->
               IF i % 3 = 0 THEN Candle(R(2000), R(1960 - 10 * (i \div 3)), R(1990))
               ELSE Candle(R(2000), R(1980), R(1990))]

\* identify_support_resistance: every series of 4 to 6 candles around three
\* values, and the wave series
LevelSeriesInputs ==
    {[fn |-> "identify_support_resistance", data |-> [i \in 1..Len(s) |-> Around(s[i])]] :
        s \in UNION {[1..k -> {1990, 2000, 2001}] : k \in 4..6}}
    \cup {[fn |-> "identify_support_resistance", data |-> Waves(k)] : k \in 1..MaxWaves}

\* a set of numbers as a list, highest first
RECURSIVE DescList(_)
DescList(S) ==
    IF S = {} THEN <<>>
    ELSE LET m == CHOOSE x \in S : \A y \in S : RLe(y, x) IN <<m>> \o DescList(S \ {m})

NearestLevelValues == {R(95), R(99), R(100), R(101), R(110)}

\* find_nearest_levels: every pair of level sets at three prices
NearestInputs ==
    {[fn |-> "find_nearest_levels", current_price |-> p,
      levels |-> [resistance |-> DescList(rs), support |-> DescList(ss)]] :
        p \in {R(99), R(100), D(10050)}, rs \in SUBSET NearestLevelValues,
        ss \in SUBSET NearestLevelValues}

\* get_ma_alignment: no, one or two averages, computable or not
AlignmentInputs ==
    {[fn |-> "get_ma_alignment", mas |-> m, current_price |-> R(100)] :
        m \in UNION {[P -> {Null, R(99), R(100), R(101)}] : P \in SUBSET {50, 200}}}

ReadingNames ==
    {"US10Y", "US2Y", "US30Y", "VIX", "DXY", "USD/EUR", "EUR/USD", "USD/JPY",
     "SPX", "GBP/USD", "BTC/USD"}
PercentValues == {D(-60), D(-50), D(0), D(50), D(60)}
TenYearValues == {D(430), D(439), D(440), D(441), D(450), D(455)}
Profiles ==
    {[y10 |-> y, pc |-> D(0), pc2 |-> D(0)] : y \in TenYearValues}
    \cup {[y10 |-> D(430), pc |-> a, pc2 |-> b] : a, b \in PercentValues}

\* the reading called n under profile v: the 2Y stands at 4.50, the 10Y at
\* v.y10; DXY and EUR/USD moved by v.pc, every other reading by v.pc2
Reading(n, v) ==
    LET pct == IF n \in {"DXY", "EUR/USD"} THEN v.pc ELSE v.pc2
        price == IF n = "US10Y" THEN v.y10 ELSE IF n = "US2Y" THEN D(450) ELSE R(18) IN
    IF n \in {"US10Y", "US2Y", "US30Y", "VIX", "DXY", "USD/EUR"}
    THEN [price |-> price, change |-> pct, percent_change |-> pct]
    ELSE [close |-> price, change |-> pct, percent_change |-> pct]

CorrelationMap(S, v) == [n \in S |-> Reading(n, v)]

\* analyze_correlations: every subset of the readings under every profile
CorrelationInputs ==
    {[fn |-> "analyze_correlations", correlation_data |-> CorrelationMap(S, v)] :
        S \in SUBSET ReadingNames, v \in Profiles}

\* the clock when the analysis function is called
AnalysisNow == 7200

\* a high-impact event s seconds after the call (before it, if s < 0: the
\* list was cached up to CACHE_TTL["NEWS"] seconds ago)
Event(s) == [title |-> "NFP", time |-> AnalysisNow + s, impact |-> "High"]
NewsInputs ==
    {<<>>, <<Event(14400)>>, <<Event(3600)>>, <<Event(3599)>>, <<Event(2700)>>,
     <<Event(1800)>>, <<Event(1799)>>, <<Event(1200)>>, <<Event(-30)>>,
     <<Event(-600), Event(1200)>>}

\* the 1h entry of price_data: absent, or a rising, flat or falling series
SeriesInputs ==
    {EmptyDict}
    \cup {[t \in {"1h"} |-> Some(Ramp(n, 1000, st))] :
            n \in {0, 1, 5, MinCandles - 1, MinCandles, LongLen}, st \in {-1, 0, 1}}
    \cup {[t \in {"1h"} |-> Some(Ramp(n, 1000, 1))] : n \in {MA_PERIODS[2], MA_PERIODS[2] + 1}}

\* config.MA_PERIODS, as shipped and shorter
PeriodConfigs == {MA_PERIODS, <<5, 10>>, <<2, 3>>}

SnapshotCorrelations ==
    {EmptyDict,
     CorrelationMap({"US10Y", "US2Y", "GBP/USD"}, [y10 |-> D(455), pc |-> D(0), pc2 |-> D(0)]),
     CorrelationMap({"US10Y", "VIX"}, [y10 |-> D(430), pc |-> D(0), pc2 |-> D(60)]),
     CorrelationMap({"DXY", "BTC/USD"}, [y10 |-> D(430), pc |-> D(60), pc2 |-> D(0)])}

\* generate_market_snapshot: what get_full_market_snapshot may have returned
SnapshotInputs ==
    {[fn |-> "generate_market_snapshot", periods |-> ps,
      market_data |-> [xauusd |-> [quote |-> q, price_data |-> pd],
                       correlations |-> cd, news |-> ne]] :
        ps \in PeriodConfigs, q \in {None, "quote"}, pd \in SeriesInputs,
        cd \in SnapshotCorrelations, ne \in NewsInputs}

\* what analyze_timeframe may have returned, as far as the driver and the
\* alerts read it: the error marker, or a price of 2000 with an RSI status
\* and the nearest levels at 0.15 %, 0.2 % and 0.5 % from the price, or none
TechnicalInputs(statuses, resistances, supports) ==
    {InsufficientData}
    \cup {[current_price |-> R(2000), rsi_status |-> st,
           nearest_levels |-> FindNearestLevels(R(2000), [resistance |-> rs, support |-> ss])] :
            st \in statuses, rs \in resistances, ss \in supports}
StatusInputs == {"Overbought", "Oversold", "Neutral", "N/A"}
ResistanceInputs == {<<>>, <<R(2003)>>, <<R(2004)>>, <<R(2010)>>}
SupportInputs == {<<>>, <<R(1997)>>, <<R(1996)>>, <<R(1990)>>}

\* the moves of the 10Y yield in basis points and of the dollar index in
\* hundredths of a percent, as lists of no (reading absent) or one number
YieldMoves == {<<>>, <<-6>>, <<0>>, <<5>>, <<6>>}
DollarMoves == {<<>>, <<-110>>, <<-60>>, <<0>>, <<50>>, <<60>>, <<100>>, <<110>>}
MovedReading(m) == [price |-> R(100), change |-> D(m), percent_change |-> D(m)]
AnalysisInputs ==
    {AnalyzeCorrelations(
        [n \in (IF y = <<>> THEN {} ELSE {"US10Y"}) \cup (IF d = <<>> THEN {} ELSE {"DXY"}) |->
            IF n = "US10Y" THEN MovedReading(y[1]) ELSE MovedReading(d[1])]) :
        y \in YieldMoves, d \in DollarMoves}

\* determine_primary_driver and check_alerts on every combination of these
DriverInputs ==
    {[fn |-> "determine_primary_driver", technical_data |-> t, news_events |-> ne,
      correlation_analysis |-> ca] :
        t \in TechnicalInputs(StatusInputs, {<<R(2003)>>}, {<<>>}),
        ne \in NewsInputs, ca \in AnalysisInputs}
AlertInputs ==
    {[fn |-> "check_alerts", technical_data |-> t, news_events |-> ne,
      correlation_analysis |-> ca] :
        t \in TechnicalInputs({"Neutral"}, ResistanceInputs, SupportInputs),
        ne \in NewsInputs, ca \in AnalysisInputs}

(***************************************************************************)
(* The batched request of get_correlation_data, src/data_fetcher.py lines  *)
(* 638-661, in full: config.CORRELATION_SYMBOLS is a list of <<name,       *)
(* symbol>> pairs in the order of the dict, the batch answer is None or a  *)
(* dict.  The iteration order of a Python set of strings depends on the    *)
(* hashes of the strings and on the order of insertion, so list(set(...))  *)
(* is any ordering of the distinct symbols.                                *)
(***************************************************************************)
\* symbols_map.values()
SymbolsOf(symbols_map) == {symbols_map[i][2] : i \in 1..Len(symbols_map)}

\* list(set(values)): the orders in which the set may be listed
SetOrders(S) == {f \in [1..Cardinality(S) -> S] : \A i, j \in 1..Cardinality(S) : f[i] = f[j] => i = j}

\* ",".join(symbols_list)
RECURSIVE Join(_)
Join(symbols_list) ==
    IF symbols_list = <<>> THEN ""
    ELSE IF Len(symbols_list) = 1 THEN symbols_list[1]
    ELSE symbols_list[1] \o "," \o Join(Tail(symbols_list))

\* f"quotes_batch_{batch_string}"
BatchKeyOf(batch_string) == "quotes_batch_" \o batch_string

\* `if batch_quotes:` - None and the empty dict alike
DictTruthy(d) == d # NoneData /\ DOMAIN d # {}

\* lines 653-659: the loop over symbols_map.items() from the i-th pair on
RECURSIVE BindQuotes(_, _, _, _, _)
BindQuotes(symbols_map, i, symbols_list, batch_quotes, correlation_data) ==
    IF i > Len(symbols_map) THEN correlation_data
    ELSE LET name == symbols_map[i][1]
             symbol == symbols_map[i][2] IN
         BindQuotes(symbols_map, i + 1, symbols_list, batch_quotes,
             IF symbol \in DOMAIN batch_quotes
             THEN Put(correlation_data, name, batch_quotes[symbol])
             ELSE IF "price" \in DOMAIN batch_quotes /\ Len(symbols_list) = 1
             THEN Put(correlation_data, name, batch_quotes)
             ELSE correlation_data)

\* lines 638-661 with the set listed as symbols_list and the cached call
\* returning batch_quotes
CorrelationBatch(symbols_map, symbols_list, batch_quotes, correlation_data) ==
    [batch_string |-> Join(symbols_list),
     key |-> BatchKeyOf(Join(symbols_list)),
     correlation_data |-> IF DictTruthy(batch_quotes)
                          THEN BindQuotes(symbols_map, 1, symbols_list, batch_quotes, correlation_data)
                          ELSE correlation_data]

\* configurations: up to MaxSymbols names, each with one of the symbols
MaxSymbols == 3
ConfigNames == {"EUR/USD", "USD/JPY", "GBP/USD"}
ConfigSymbols == {"EUR/USD", "GBP/USD", "USD/JPY"}
SymbolMaps ==
    {m \in SeqsUpTo(ConfigNames \X ConfigSymbols, MaxSymbols) :
        \A i, j \in 1..Len(m) : m[i][1] = m[j][1] => i = j}

\* a quote record as /quote gives it, and one that carries a "price" field
QuoteOf(symbol) == [symbol |-> symbol, close |-> R(1), percent_change |-> D(10)]
PricedQuoteOf(symbol) == [symbol |-> symbol, price |-> R(1), percent_change |-> D(10)]

\* what the cached get_quote call may return: None, a map from some of the
\* symbols to their quotes (the empty one included), or a single record
BatchAnswers ==
    {NoneData}
    \cup {[sy \in S |-> QuoteOf(sy)] : S \in SUBSET ConfigSymbols}
    \cup {QuoteOf(sy) : sy \in ConfigSymbols}
    \cup {PricedQuoteOf(sy) : sy \in ConfigSymbols}

FredPart == {EmptyDict, [n \in {"US10Y"} |-> [price |-> D(430), change |-> R(0), percent_change |-> R(0)]]}

BatchInputs ==
    {[fn |-> "get_correlation_data", symbols_map |-> m, batch_quotes |-> b, correlation_data |-> c] :
        m \in SymbolMaps, b \in BatchAnswers, c \in FredPart}

(***************************************************************************)
(* TwelveDataFetcher.get_price_data, src/data_fetcher.py lines 22-71, from *)
(* the decoded response on.  An item of "values" is a record [datetime,    *)
(* close, kind]: kind "ok" converts; "missing_key" lacks a field           *)
(* (KeyError) and "bad_number" holds text that float() rejects             *)
(* (ValueError), both caught at line 59; "null_field" holds null, for      *)
(* which float() raises TypeError, caught only at line 69.                 *)
(***************************************************************************)
\* lines 50-57: the candle of an item that converts
CandleOf(item) == [datetime |-> item.datetime, close |-> item.close]

\* lines 48-60: the loop over data["values"]; the result is the list of
\* candles, or Raise when an exception leaves the loop
RECURSIVE ConvertValues(_, _)
ConvertValues(values, price_data) ==
    IF values = <<>> THEN price_data
    ELSE IF values[1].kind = "null_field" THEN Raise
    ELSE IF values[1].kind \in {"missing_key", "bad_number"}
    THEN ConvertValues(Tail(values), price_data)
    ELSE ConvertValues(Tail(values), Append(price_data, CandleOf(values[1])))

\* list.sort(key=lambda x: x["datetime"]): stable, ascending
RECURSIVE InsertByDatetime(_, _)
InsertByDatetime(x, s) ==
    IF s = <<>> THEN <<x>>
    ELSE IF s[1].datetime <= x.datetime THEN <<s[1]>> \o InsertByDatetime(x, Tail(s))
    ELSE <<x>> \o s
RECURSIVE SortByDatetime(_)
SortByDatetime(s) ==
    IF s = <<>> THEN <<>>
    ELSE InsertByDatetime(s[Len(s)], SortByDatetime(SubSeq(s, 1, Len(s) - 1)))

\* get_price_data, lines 39-71, on the decoded response `data`
GetPriceData(data) ==
    IF "status" \in DOMAIN data /\ data.status = "error" THEN NoneData
    ELSE IF "values" \in DOMAIN data
    THEN LET price_data == ConvertValues(data.values, <<>>) IN
         IF price_data = Raise THEN NoneData ELSE Some(SortByDatetime(price_data))
    ELSE NoneData

\* responses: an error, one without "values", and every list of up to
\* MaxValues items with timestamps 1..MaxStamp
MaxValues == 3
MaxStamp == 3
ValueItems ==
    {[datetime |-> t, close |-> c, kind |-> "ok"] : t \in 1..MaxStamp, c \in {1, 2}}
    \cup {[datetime |-> t, close |-> 1, kind |-> k] :
            t \in 1..MaxStamp, k \in {"missing_key", "bad_number", "null_field"}}
PriceResponses ==
    {[status |-> "error"], [code |-> 200]}
    \cup {[status |-> "ok", values |-> v] : v \in SeqsUpTo(ValueItems, MaxValues)}
PriceDataInputs == {[fn |-> "get_price_data", data |-> d] : d \in PriceResponses}

analysisFrame == <<cacheVars, last, cycleVars, app, thr, arg>>

\* calculate_rsi(data, period) is called and returns
CalculateRsiCall ==
    /\ op = "-"
    /\ arg.fn = "calculate_rsi"
    /\ op' = "calculate_rsi"
    /\ out' = CalculateRsi(arg.data, arg.period)
    /\ UNCHANGED analysisFrame

\* _cluster_levels(levels) is called and returns
ClusterLevelsCall ==
    /\ op = "-"
    /\ arg.fn = "_cluster_levels"
    /\ op' = "_cluster_levels"
    /\ out' = ClusterLevels(arg.levels)
    /\ UNCHANGED analysisFrame

\* identify_support_resistance(data) is called and returns
IdentifySupportResistanceCall ==
    /\ op = "-"
    /\ arg.fn = "identify_support_resistance"
    /\ op' = "identify_support_resistance"
    /\ out' = IdentifySupportResistance(arg.data)
    /\ UNCHANGED analysisFrame

\* find_nearest_levels(current_price, levels) is called and returns
FindNearestLevelsCall ==
    /\ op = "-"
    /\ arg.fn = "find_nearest_levels"
    /\ op' = "find_nearest_levels"
    /\ out' = FindNearestLevels(arg.current_price, arg.levels)
    /\ UNCHANGED analysisFrame

\* get_ma_alignment(mas, current_price) is called and returns
GetMaAlignmentCall ==
    /\ op = "-"
    /\ arg.fn = "get_ma_alignment"
    /\ op' = "get_ma_alignment"
    /\ out' = GetMaAlignment(arg.mas, arg.current_price)
    /\ UNCHANGED analysisFrame

\* analyze_correlations(correlation_data) is called and returns
AnalyzeCorrelationsCall ==
    /\ op = "-"
    /\ arg.fn = "analyze_correlations"
    /\ op' = "analyze_correlations"
    /\ out' = AnalyzeCorrelations(arg.correlation_data)
    /\ UNCHANGED analysisFrame

\* generate_market_snapshot() with config.MA_PERIODS = periods is called and returns
GenerateMarketSnapshotCall ==
    /\ op = "-"
    /\ arg.fn = "generate_market_snapshot"
    /\ op' = "generate_market_snapshot"
    /\ out' = GenerateMarketSnapshot(arg.market_data, arg.periods)
    /\ UNCHANGED analysisFrame

\* determine_primary_driver(technical_data, news_events, correlation_analysis)
\* is called and returns
DeterminePrimaryDriverCall ==
    /\ op = "-"
    /\ arg.fn = "determine_primary_driver"
    /\ op' = "determine_primary_driver"
    /\ out' = DeterminePrimaryDriver(arg.technical_data, arg.news_events, arg.correlation_analysis)
    /\ UNCHANGED analysisFrame

\* check_alerts(technical_data, correlation_analysis, news_events) is called
\* and returns
CheckAlertsCall ==
    /\ op = "-"
    /\ arg.fn = "check_alerts"
    /\ op' = "check_alerts"
    /\ out' = CheckAlerts(arg.technical_data, arg.correlation_analysis, arg.news_events)
    /\ UNCHANGED analysisFrame

\* the batched part of get_correlation_data runs, the set of symbols being
\* listed in one of its possible orders
GetCorrelationDataCall ==
    /\ op = "-"
    /\ arg.fn = "get_correlation_data"
    /\ op' = "get_correlation_data"
    /\ \E symbols_list \in SetOrders(SymbolsOf(arg.symbols_map)) :
          out' = CorrelationBatch(arg.symbols_map, symbols_list, arg.batch_quotes,
                                  arg.correlation_data)
    /\ UNCHANGED analysisFrame

\* get_price_data has received the response and returns
GetPriceDataCall ==
    /\ op = "-"
    /\ arg.fn = "get_price_data"
    /\ op' = "get_price_data"
    /\ out' = GetPriceData(arg.data)
    /\ UNCHANGED analysisFrame

InitAnalysis ==
    /\ cache = EmptyDict
    /\ cache_timestamps = EmptyDict
    /\ now = AnalysisNow
    /\ last = [call |-> NoCall, prev |-> NoCall]
    /\ env = [statuses |-> {"ok"}, fredUp |-> TRUE, fault |-> "none"]
    /\ IdleCycle
    /\ app = IdleApp
    /\ thr = IdleThr
    /\ op = "-"
    /\ out = None
    /\ \/ arg \in RsiInputs
       \/ arg \in ClusterInputs
       \/ arg \in LevelSeriesInputs
       \/ arg \in NearestInputs
       \/ arg \in AlignmentInputs
       \/ arg \in CorrelationInputs
       \/ arg \in SnapshotInputs
       \/ arg \in DriverInputs
       \/ arg \in AlertInputs
       \/ arg \in BatchInputs
       \/ arg \in PriceDataInputs

NextAnalysis ==
    \/ CalculateRsiCall
    \/ ClusterLevelsCall
    \/ IdentifySupportResistanceCall
    \/ FindNearestLevelsCall
    \/ GetMaAlignmentCall
    \/ AnalyzeCorrelationsCall
    \/ GenerateMarketSnapshotCall
    \/ DeterminePrimaryDriverCall
    \/ CheckAlertsCall
    \/ GetCorrelationDataCall
    \/ GetPriceDataCall

SpecAnalysis == InitAnalysis /\ [][NextAnalysis]_vars

(***************************************************************************)
(* Concurrent calls of _get_cached_data on one key: the background thread  *)
(* (src/app.py:27-48) and a request_update handler (src/app.py:106-113)    *)
(* use the same MarketDataAggregator.  Each statement of lines 519-537 is  *)
(* one step; the threads may be switched between any two of them.          *)
(***************************************************************************)
MaxRaceTime == 3
Threads == {"background", "manual"}
RaceKey == QuoteKey
RaceTTL == TTL_QUOTE
IdleThread == [pc |-> "idle", now |-> -1, data |-> "-", ret |-> "-", stored |-> FALSE]

\* what fetch_func gives thread t: its own data, None, or an exception
RaceOutcomes(t) == {"data of " \o t, None, Raise}

\* line 519: now = time.time()
EnterCall(t) ==
    /\ thr.at[t].pc = "idle"
    /\ thr' = [thr EXCEPT !.at[t].pc = "check", !.at[t].now = now]
    /\ UNCHANGED <<cacheVars, last, cycleVars, app, op, arg, out>>

\* lines 521-523: a fresh entry is returned, otherwise on to the fetch
CheckFresh(t) ==
    /\ thr.at[t].pc = "check"
    /\ thr' = IF Fresh(cache, cache_timestamps, RaceKey, RaceTTL, thr.at[t].now)
              THEN [thr EXCEPT !.at[t].pc = "done", !.at[t].ret = cache[RaceKey]]
              ELSE [thr EXCEPT !.at[t].pc = "fetch"]
    /\ UNCHANGED <<cacheVars, last, cycleVars, app, op, arg, out>>

\* line 527: fetch_func returns or raises, some time after it was called
FetchReturns(t) ==
    /\ thr.at[t].pc = "fetch"
    /\ \E d \in RaceOutcomes(t) :
          thr' = [thr EXCEPT !.at[t].data = d,
                             !.at[t].pc = IF d \in {None, Raise} THEN "fallback" ELSE "store_value"]
    /\ UNCHANGED <<cacheVars, last, cycleVars, app, op, arg, out>>

\* line 529: self.cache[key] = data
StoreValue(t) ==
    /\ thr.at[t].pc = "store_value"
    /\ cache' = Put(cache, RaceKey, thr.at[t].data)
    /\ thr' = [thr EXCEPT !.at[t].pc = "store_ts", !.writes = Append(@, <<t, "value">>)]
    /\ UNCHANGED <<cache_timestamps, now, last, cycleVars, app, op, arg, out>>

\* lines 530-531: self.cache_timestamps[key] = now; return data
StoreTimestamp(t) ==
    /\ thr.at[t].pc = "store_ts"
    /\ cache_timestamps' = Put(cache_timestamps, RaceKey, thr.at[t].now)
    /\ thr' = [thr EXCEPT !.at[t].pc = "done", !.at[t].ret = thr.at[t].data,
                          !.at[t].stored = TRUE, !.writes = Append(@, <<t, "timestamp">>)]
    /\ UNCHANGED <<cache, now, last, cycleVars, app, op, arg, out>>

\* lines 535 and 537: return self.cache.get(key)
ReturnStored(t) ==
    /\ thr.at[t].pc = "fallback"
    /\ thr' = [thr EXCEPT !.at[t].pc = "done", !.at[t].ret = CacheGet(cache, RaceKey)]
    /\ UNCHANGED <<cacheVars, last, cycleVars, app, op, arg, out>>

\* the clock moves on while the threads run
RaceTick ==
    /\ now < MaxRaceTime
    /\ now' = now + 1
    /\ UNCHANGED <<cache, cache_timestamps, last, cycleVars, app, otherVars>>

InitRace ==
    /\ cache = EmptyDict
    /\ cache_timestamps = EmptyDict
    /\ now = 0
    /\ last = [call |-> NoCall, prev |-> NoCall]
    /\ env = [statuses |-> {"ok"}, fredUp |-> TRUE, fault |-> "none"]
    /\ IdleCycle
    /\ app = IdleApp
    /\ thr = [at |-> [t \in Threads |-> IdleThread], writes |-> <<>>]
    /\ op = "-"
    /\ arg = None
    /\ out = None

NextRace ==
    \/ \E t \in Threads : EnterCall(t)
    \/ \E t \in Threads : CheckFresh(t)
    \/ \E t \in Threads : FetchReturns(t)
    \/ \E t \in Threads : StoreValue(t)
    \/ \E t \in Threads : StoreTimestamp(t)
    \/ \E t \in Threads : ReturnStored(t)
    \/ RaceTick

SpecRace == InitRace /\ [][NextRace]_vars

(***************************************************************************)
(* One reading of the economic-statistics provider on its way into a       *)
(* snapshot: FREDFetcher.get_series_latest (src/data_fetcher.py:131-189),  *)
(* its place in the correlation map (get_correlation_data, lines 585-636), *)
(* and generate_market_snapshot on that map.  An observation is a record   *)
(* [missing, number]: missing stands for the value ".", the provider's     *)
(* sign for "no observation on that day".                                  *)
(***************************************************************************)
\* float(obs["value"]) if obs["value"] != "." else None
ObservedValue(obs) == IF obs.missing THEN Null ELSE obs.number

\* get_series_latest, lines 155-184, on the observations of the response
\* (latest first)
GetSeriesLatest(series_id, observations) ==
    IF Len(observations) = 0 THEN NoneData
    ELSE LET latest_value == ObservedValue(observations[1])
             previous_value == IF Len(observations) > 1 THEN ObservedValue(observations[2]) ELSE Null
             both == latest_value # Null /\ previous_value # Null
             change == IF both THEN RSub(latest_value, previous_value) ELSE R(0)
             percent_change == IF both /\ previous_value # R(0)
                               THEN RMul(RDiv(change, previous_value), R(100)) ELSE R(0) IN
         [series_id |-> series_id,
          price |-> latest_value,
          close |-> latest_value,
          change |-> change,
          percent_change |-> percent_change,
          previous_value |-> previous_value]

\* config: the series behind each name of the correlation map
SeriesId(name) ==
    CASE name = "US10Y" -> "DGS10" [] name = "US2Y" -> "DGS2" [] name = "US30Y" -> "DGS30"
      [] name = "DXY" -> "DTWEXBGS" [] name = "VIX" -> "VIXCLS" [] name = "USD/EUR" -> "DEXUSEU"

\* get_correlation_data, lines 585-636: `if data: correlation_data[name] = data`
PlaceReading(correlation_data, name, data) ==
    IF data = NoneData THEN correlation_data ELSE Put(correlation_data, name, data)

\* an exception that leaves the function
Raised(what) == [exception |-> what]

\* the readings whose level analyze_correlations converts with float(): the
\* named ones, and of each if/elif chain the first that is present
ConvertedReadings(correlation_data) ==
    LET present == DOMAIN correlation_data
        dollars == SelectSeq(DollarPriority, LAMBDA n : n \in present) IN
    (present \cap {"US10Y", "US2Y", "US30Y", "VIX", "BTC/USD"})
    \cup (IF dollars = <<>> THEN {} ELSE {dollars[1]})

\* analyze_correlations, lines 63-249, with float(None) raising TypeError
AnalyzeCorrelationsOutcome(correlation_data) ==
    IF \E n \in ConvertedReadings(correlation_data) : PriceOf(correlation_data[n]) = Null
    THEN Raised("TypeError")
    ELSE AnalyzeCorrelations(correlation_data)

\* generate_market_snapshot, lines 373-423: no handler around line 396
GenerateMarketSnapshotOutcome(market_data, periods) ==
    IF AnalyzeCorrelationsOutcome(market_data.correlations) = Raised("TypeError")
    THEN Raised("TypeError")
    ELSE GenerateMarketSnapshot(market_data, periods)

\* the responses: no, one or two observations; each is missing, zero or a
\* level around 4.40
Observations ==
    {[missing |-> TRUE, number |-> R(0)]}
    \cup {[missing |-> FALSE, number |-> x] : x \in {R(0), D(430), D(440)}}
ObservationLists == SeqsUpTo(Observations, 2)

\* the readings of the other names in the same cycle
OtherReadings ==
    {EmptyDict,
     CorrelationMap({"US10Y", "US2Y", "VIX", "DXY", "EUR/USD"}, [y10 |-> D(455), pc |-> D(60), pc2 |-> D(0)])}

ReadingInputs ==
    {[fn |-> "get_series_latest", name |-> n, observations |-> o, others |-> c,
      xauusd |-> [quote |-> "quote", price_data |-> pd], news |-> ne] :
        n \in {FredNames[i] : i \in 1..Len(FredNames)}, o \in ObservationLists,
        c \in OtherReadings,
        pd \in {EmptyDict, [t \in {"1h"} |-> Some(Ramp(LongLen, 1000, 1))]},
        ne \in {<<>>, <<Event(1200)>>}}

\* get_series_latest(series_id) returns
GetSeriesLatestCall ==
    /\ op = "-"
    /\ arg.fn = "get_series_latest"
    /\ op' = "get_series_latest"
    /\ out' = GetSeriesLatest(SeriesId(arg.name), arg.observations)
    /\ UNCHANGED analysisFrame

\* get_correlation_data puts the reading into the map, next to the others
GetCorrelationDataStep ==
    /\ op = "get_series_latest"
    /\ op' = "get_correlation_data"
    /\ out' = PlaceReading(arg.others, arg.name, out)
    /\ UNCHANGED analysisFrame

\* generate_market_snapshot runs on the map: it returns a snapshot or raises
GenerateMarketSnapshotStep ==
    /\ op = "get_correlation_data"
    /\ op' = "generate_market_snapshot"
    /\ out' = GenerateMarketSnapshotOutcome(
                 [xauusd |-> arg.xauusd, correlations |-> out, news |-> arg.news], MA_PERIODS)
    /\ UNCHANGED analysisFrame

InitReading ==
    /\ cache = EmptyDict
    /\ cache_timestamps = EmptyDict
    /\ now = AnalysisNow
    /\ last = [call |-> NoCall, prev |-> NoCall]
    /\ env = [statuses |-> {"ok"}, fredUp |-> TRUE, fault |-> "none"]
    /\ IdleCycle
    /\ app = IdleApp
    /\ thr = IdleThr
    /\ op = "-"
    /\ out = None
    /\ arg \in ReadingInputs

NextReading ==
    \/ GetSeriesLatestCall
    \/ GetCorrelationDataStep
    \/ GenerateMarketSnapshotStep

SpecReading == InitReading /\ [][NextReading]_vars

(***************************************************************************)
(* The event list across cycles: get_upcoming_news caches what             *)
(* get_upcoming_events returned for CACHE_TTL["NEWS"] seconds, and every   *)
(* cycle reads the first event of the list against the clock.              *)
(***************************************************************************)
MaxNewsClock == 7200
ClockStep == 300
HOURS_AHEAD == 4

\* the times (seconds on the clock `now`) at which the calendar may have a
\* high-impact event
CalendarTimes == {870, 2700, 4500}

CalendarEvent(t) == [title |-> "NFP", time |-> t, impact |-> "High"]

\* the events at the times in S, sorted by time
RECURSIVE SortedEvents(_)
SortedEvents(S) ==
    IF S = {} THEN <<>>
    ELSE LET m == CHOOSE x \in S : \A y \in S : x <= y IN
         <<CalendarEvent(m)>> \o SortedEvents(S \ {m})

\* _generate_sample_events, lines 296-341: the first sample event lies 3 h 30
\* after the call, the only one inside a window of 4 hours
SampleEvents(t) == <<[title |-> "US Non-Farm Payrolls (NFP)", time |-> t + 12600, impact |-> "High"]>>

\* get_upcoming_events, lines 273-294, called at time t on a calendar with
\* events at the times in `calendar`: those with now <= time <= cutoff,
\* sorted by time (lines 358-383, 441-452); the sample events if there is none
GetUpcomingEvents(calendar, t) ==
    LET events == SortedEvents({x \in calendar : t <= x /\ x <= t + HOURS_AHEAD * 3600}) IN
    IF events # <<>> THEN events ELSE SampleEvents(t)

\* get_upcoming_news, lines 663-670, at time t: the state of the cache after
\* the call and the list it returns
GetUpcomingNews(c, ts, calendar, t) ==
    IF Fresh(c, ts, NewsKey, TTL_NEWS, t)
    THEN [cache |-> c, ts |-> ts, ret |-> c[NewsKey], raised |-> FALSE]
    ELSE AfterFetch(c, ts, NewsKey, t, GetUpcomingEvents(calendar, t))

\* One cycle as far as the events go: the list from get_upcoming_news, then
\* the driver, the alerts and the next catalyst of generate_market_snapshot
\* (lines 399-402) on a 1h series too short to analyse and no correlation
\* reading, so that only the first event can decide the driver and the alert.
NewsCycle ==
    LET got == GetUpcomingNews(cache, cache_timestamps, arg.calendar, now) IN
    /\ cache' = got.cache
    /\ cache_timestamps' = got.ts
    /\ op' = "generate_market_snapshot"
    /\ out' = [at |-> now,
               fetched_at |-> got.ts[NewsKey],
               news |-> got.ret,
               primary_driver |-> DeterminePrimaryDriver(InsufficientData, got.ret, EmptyDict),
               alerts |-> CheckAlerts(InsufficientData, EmptyDict, got.ret),
               next_catalyst |-> GetNextCatalyst(got.ret)]
    /\ UNCHANGED <<now, last, cycleVars, app, thr, arg>>

\* time passes between two cycles
NewsTick ==
    /\ now + ClockStep <= MaxNewsClock
    /\ now' = now + ClockStep
    /\ UNCHANGED <<cache, cache_timestamps, last, cycleVars, app, otherVars>>

InitNews ==
    /\ cache = EmptyDict
    /\ cache_timestamps = EmptyDict
    /\ now = 0
    /\ last = [call |-> NoCall, prev |-> NoCall]
    /\ env = [statuses |-> {"ok"}, fredUp |-> TRUE, fault |-> "none"]
    /\ IdleCycle
    /\ app = IdleApp
    /\ thr = IdleThr
    /\ op = "-"
    /\ out = None
    /\ arg \in {[fn |-> "get_upcoming_news", calendar |-> S] : S \in SUBSET CalendarTimes}

NextNews == NewsCycle \/ NewsTick

SpecNews == InitNews /\ [][NextNews]_vars

(***************************************************************************)
(* Claims about _get_cached_data (specification Spec)                      *)
(***************************************************************************)
Failures == {Raise, None, EmptyList, EmptyMap}
Called == last.call.key # "-"
B2N(b) == IF b THEN 1 ELSE 0

\* C1 (as claimed): a call that finds no fresh entry and whose fetch raises or
\* returns an empty/null result (None, [], {}) gives back the value stored
\* before the call if there was one, otherwise an empty/null value, and does
\* not raise.
C1_FailedFetchServesPrevious ==
    LET c == last.call IN
    (Called /\ c.fetched /\ c.outcome \in Failures) =>
        /\ ~c.raised
        /\ IF c.hadEntry THEN c.ret = c.beforeV
           ELSE c.ret \in {None, EmptyList, EmptyMap}

\* C2 (as claimed): two successive calls on one key, same ttl, within ttl of
\* each other, invoke fetch_func at most once in total and return the same
\* value, whatever the fetch outcomes.
C2_TwoCallsOneFetchAnyOutcome ==
    LET c == last.call
        p == last.prev IN
    (Called /\ p.key # "-" /\ c.ttl = p.ttl /\ c.at - p.at < c.ttl) =>
        /\ B2N(p.fetched) + B2N(c.fetched) <= 1
        /\ c.ret = p.ret

\* C2 (amended): when the first of the two calls invoked fetch_func and it
\* returned a non-null value, the second call (same key, same ttl, within ttl
\* of the first) invokes no fetch and returns that same value.
C2_TwoCallsOneFetchAfterStore ==
    LET c == last.call
        p == last.prev IN
    (Called /\ p.key # "-" /\ c.ttl = p.ttl /\ c.at - p.at < c.ttl
        /\ p.fetched /\ p.outcome \notin {None, Raise}) =>
        /\ ~c.fetched
        /\ c.ret = p.ret
        /\ c.ret = p.outcome

\* C2 witness: a second call, one second after a first one that fetched "v1",
\* still within the ttl of 2, has been answered.
C2_Witness ==
    LET c == last.call
        p == last.prev IN
    /\ Called /\ p.key # "-" /\ c.ttl = 2 /\ p.ttl = 2 /\ c.at = p.at + 1
    /\ p.fetched /\ p.outcome = "v1" /\ c.ret = "v1" /\ ~c.fetched

\* C4: no step removes an entry or its timestamp (a call, a failed refresh,
\* the passing of time), and a refresh whose fetch raises or returns None
\* leaves the whole cache, values and timestamps, as it was.
C4_EntriesPersist ==
    [][ /\ DOMAIN cache \subseteq DOMAIN cache'
        /\ DOMAIN cache_timestamps \subseteq DOMAIN cache_timestamps'
        /\ (last'.call.key # "-" /\ last'.call.fetched /\ last'.call.outcome \in {Raise, None})
              => (cache' = cache /\ cache_timestamps' = cache_timestamps) ]_vars

\* C4 witness: an entry older than every ttl is still stored right after a
\* refresh of it failed, with the value and timestamp it had before.
C4_Witness ==
    LET c == last.call IN
    /\ Called /\ c.fetched /\ c.outcome \in {Raise, None} /\ c.hadEntry
    /\ c.at - c.beforeTs >= 2
    /\ c.key \in DOMAIN cache /\ cache[c.key] = c.beforeV
    /\ cache_timestamps[c.key] = c.beforeTs /\ c.ret = c.beforeV

(***************************************************************************)
(* Claims about one snapshot cycle (specification SpecCycle)               *)
(***************************************************************************)
Started == pc["main"] # "start"
Returned == pc["main"] = "done"
Part(r, g) == CASE g = "A" -> r.xauusd [] g = "B" -> r.correlations [] g = "C" -> r.news
TwelveKeys == KeysA \cup {BatchKey}

\* every key the cycle uses had a fresh entry when the cycle started
AllFreshAtStart ==
    /\ Started
    /\ \A k \in AllKeys :
          /\ k \in DOMAIN hist.start.cache
          /\ k \in DOMAIN hist.start.ts
          /\ hist.start.now - hist.start.ts[k] < TTLOf(k)

\* C3: a call that finds a fresh entry (now - fetched_at < ttl) returns the
\* stored value, does not invoke the fetch function and leaves value and
\* fetched_at as they were; and a cycle started while every key is fresh
\* sends no provider request, takes no inter-call delay and takes no time.
C3_FreshEntryServedWithoutFetch ==
    /\ \A t \in Tasks :
          LET c == call[t] IN
          (c.key # "-" /\ c.hadEntry /\ c.beforeTs >= 0 /\ c.at - c.beforeTs < c.ttl) =>
              /\ ~c.fetched
              /\ c.ret = c.beforeV
              /\ c.afterV = c.beforeV
              /\ c.afterTs = c.beforeTs
    /\ AllFreshAtStart =>
          /\ \A k \in AllKeys : req[k].attempts = 0
          /\ hist.slept = {}
          /\ hist.log = <<>>
          /\ now = hist.start.now

\* C3 witness: a cycle that started with every key fresh has returned, and its
\* composite holds the stored quote, all three stored series and the stored
\* events.
C3_Witness ==
    /\ Returned /\ AllFreshAtStart
    /\ result.xauusd.quote = "old"
    /\ DOMAIN result.xauusd.price_data = {TIMEFRAMES[i] : i \in 1..Len(TIMEFRAMES)}
    /\ result.news = "old"
    /\ \A t \in Tasks : call[t].key # "-" /\ ~call[t].fetched

\* the documented empty default of a group: no quote and no series for A,
\* the empty map for B, the empty list for C
EmptyDefault(g) ==
    CASE g = "A" -> [quote |-> None, price_data |-> <<>>]
      [] g = "B" -> <<>>
      [] g = "C" -> "[]"

\* a task that ended with a value less than its group's timeout after the
\* cycle started
FinishedInTime(g) ==
    /\ fut[g].state = "done"
    /\ hist.finishedAt[g] >= 0
    /\ hist.finishedAt[g] - hist.start.now < Timeout(g)

\* C5: the cycle always goes on until it returns a composite with the three
\* group results; a group
\* whose result() raised or timed out appears as its own empty default, a
\* group whose result() returned appears with exactly the task's value, and a
\* task that ended in time is never replaced by a default.
C5_FailedGroupGetsDefault ==
    /\ Returned \/ ENABLED NextCycle
    /\ Returned =>
        \A g \in Tasks :
            LET v == Part(result, g) IN
            /\ mloc.seen[g] \in {"result", "exception", "timeout"}
            /\ mloc.seen[g] \in {"exception", "timeout"} => v = EmptyDefault(g)
            /\ mloc.seen[g] = "result" => (fut[g].state = "done" /\ v = fut[g].value)
            /\ env.fault = g => v = EmptyDefault(g)
            /\ FinishedInTime(g) => v = fut[g].value

\* C5 witness: Group B timed out while A and C delivered: the composite has
\* A's quote and series, C's events and the empty correlation map.
C5_Witness ==
    /\ Returned
    /\ mloc.seen = [g \in Tasks |-> IF g = "B" THEN "timeout" ELSE "result"]
    /\ Truthy(result.xauusd.quote)
    /\ DOMAIN result.xauusd.price_data = {TIMEFRAMES[i] : i \in 1..Len(TIMEFRAMES)}
    /\ Truthy(result.news)
    /\ result.correlations = <<>>

\* C6 (as claimed): a Group B or Group C task that has not ended within its
\* group's timeout, counted from the start of the cycle, appears in the
\* composite as the group's empty default, however long Group A took.
C6_DeadlinesCountFromCycleStart ==
    Returned =>
        \A g \in {"B", "C"} :
            (hist.finishedAt[g] < 0 \/ hist.finishedAt[g] - hist.start.now > Timeout(g))
                => Part(result, g) = EmptyDefault(g)

\* C8 (as claimed): every request to the price/quote provider that was
\* answered "rate limited" has been followed by the cooldown and by exactly
\* one retry of the same request before its call returned.
C8_RateLimitedRequestRetriedOnce ==
    \A k \in TwelveKeys :
        (req[k].first = "429" /\ req[k].done) => (req[k].cooled /\ req[k].attempts = 2)

\* the price-history requests sent so far, in the order they were sent
PriceLog == SelectSeq(hist.log, LAMBDA k : k \in PriceKeys)

\* C9 (as claimed): the price-history requests go out in the configured
\* interval order, each one after the inter-call delay was taken for its
\* interval, and the delay is taken only for an interval without an entry.
C9_DelayBeforeEveryPriceRequest ==
    /\ \A i, j \in 1..Len(PriceLog) :
          i < j => \E a, b \in 1..Len(TIMEFRAMES) :
                      a < b /\ PriceLog[i] = PriceKey(a) /\ PriceLog[j] = PriceKey(b)
    /\ \A k \in PriceKeys : req[k].attempts > 0 => k \in hist.slept
    /\ \A k \in hist.slept : k \in PriceKeys /\ k \notin DOMAIN hist.start.cache

\* the duration of a task of the running cycle, -1 while it runs
Took(g) == IF hist.finishedAt[g] < 0 THEN -1 ELSE hist.finishedAt[g] - hist.start.now

\* C7 (as claimed): two cycles from the same cache state in which a group's
\* task takes the same time and returns the same data carry the same result
\* for that group in their composites, whatever the other groups did.
C7_GroupResultIndependentOfOthers ==
    (hist.first.done /\ AllOver) =>
        \A g \in Tasks :
            (fut[g] = hist.first.fut[g] /\ Took(g) = hist.first.took[g])
                => Part(result, g) = Part(hist.first.result, g)

(***************************************************************************)
(* Claims about the background loop (specification SpecLoop)               *)
(***************************************************************************)
\* C10: while the task runs the loop never exits; after an exception the next
\* thing the thread does is the wait of UPDATE_INTERVAL seconds, and the wait
\* leads to the loop test; every cycle, failed or not, is followed by the
\* next cycle.
C10_LoopSurvivesExceptions ==
    /\ [](app.running => app.pc # "exit")
    /\ [][(app.pc = "except" => app'.pc = "sleep")
          /\ (app.pc = "sleep" => (app'.pc = "test" /\ app'.waited = UPDATE_INTERVAL))
          /\ (app.pc = "test" /\ app.running => app'.pc = "generate")]_vars
    /\ \A i \in 0..(CycleWindow - 1) :
          (app.pc \in {"generate", "except"} /\ app.cycle = i)
              ~> (app.pc = "generate" /\ app.cycle = (i + 1) % CycleWindow)

\* C10 witness: a cycle is being started after the wait that followed a cycle
\* in which generate_market_snapshot raised.
C10_Witness ==
    /\ app.running /\ app.pc = "generate" /\ app.previous = "generate raised"
    /\ app.waited = UPDATE_INTERVAL /\ app.cycle > 1

(***************************************************************************)
(* Claims about the analysis functions (specification SpecAnalysis)        *)
(***************************************************************************)
\* the 1h series handed to analyze_timeframe by the call in arg
SeriesOf(a) == Get(a.market_data.xauusd.price_data, "1h", NoneData)
ShortSeries(a) == SeriesOf(a) = NoneData \/ Len(SeriesOf(a).candles) < 20

\* the driver when nothing technical is known: events first, then the 10Y
\* move, then the dollar move
DriverWithoutTechnicals(news_events, analysis) ==
    IF news_events # <<>> /\ news_events[1].time - now < 3600 THEN "Fundamental"
    ELSE IF "yield" \in DOMAIN analysis /\ RGt(RAbs(analysis["yield"].change_bps), R(5))
    THEN "Fundamental"
    ELSE IF "dxy" \in DOMAIN analysis /\ RGt(RAbs(analysis["dxy"].percent_change), Rat(1, 2))
    THEN "Sentiment"
    ELSE "Technical"

\* C11: when the 1h series is missing or has fewer than 20 candles, the
\* snapshot is still produced: its technical part is the error marker alone,
\* the driver follows from events and correlations only, momentum is "Weak
\* Neutral" and no level-proximity alert is raised.
C11_ShortSeriesGivesMarker ==
    (op = "generate_market_snapshot" /\ ShortSeries(arg)) =>
        /\ out.technical = [error |-> "Insufficient data"]
        /\ DOMAIN out.technical = {"error"}
        /\ out.primary_driver = DriverWithoutTechnicals(arg.market_data.news, out.correlations)
        /\ out.momentum.description = "Weak Neutral"
        /\ \A i \in 1..Len(out.alerts) :
              out.alerts[i] \notin {"Approaching Resistance", "Approaching Support"}

\* C11 witness: a snapshot from a series of 19 candles, with a dollar index
\* that moved 0.6 % and no event: the marker, driver Sentiment, no alert.
C11_Witness ==
    /\ op = "generate_market_snapshot"
    /\ SeriesOf(arg) # NoneData
    /\ Len(SeriesOf(arg).candles) = 19
    /\ out.technical = [error |-> "Insufficient data"]
    /\ out.primary_driver = "Sentiment"
    /\ out.momentum.description = "Weak Neutral"
    /\ out.alerts = <<"None">>

(***************************************************************************)
(* Claims about concurrent calls on one key (specification SpecRace)       *)
(***************************************************************************)
AllReturned == \A t \in Threads : thr.at[t].pc = "done"
SomeStored == \E t \in Threads : thr.at[t].stored
LastWriter == thr.writes[Len(thr.writes)][1]

\* C12 (as claimed): once every concurrent call on the key has returned and
\* at least one of them stored its data, the entry's value and its timestamp
\* are the data and the `now` of one and the same call, the one that wrote
\* last.
C12_EntryComesFromLastWriter ==
    (AllReturned /\ SomeStored) =>
        /\ cache[RaceKey] = thr.at[LastWriter].data
        /\ cache_timestamps[RaceKey] = thr.at[LastWriter].now


(***************************************************************************)
(* Claims about analyze_correlations (specification SpecAnalysis)          *)
(***************************************************************************)
\* the readings of the correlation map given to analyze_correlations
Readings == DOMAIN arg.correlation_data
HasReading(n) == n \in Readings

\* C13: analyze_correlations emits a key exactly when its input reading is
\* present: yield iff US10Y, yield_2y iff US2Y, yield_30y iff US30Y,
\* yield_curve iff US2Y and US10Y, vix iff VIX, dxy iff one of DXY, USD/EUR,
\* EUR/USD, USD/JPY, risk iff SPX or GBP/USD, btc iff BTC/USD; no other key
\* is emitted, no emitted value is a placeholder, and the empty map gives the
\* empty analysis.
C13_KeysFollowReadings ==
    op = "analyze_correlations" =>
        /\ ("yield" \in DOMAIN out) = HasReading("US10Y")
        /\ ("yield_2y" \in DOMAIN out) = HasReading("US2Y")
        /\ ("yield_30y" \in DOMAIN out) = HasReading("US30Y")
        /\ ("yield_curve" \in DOMAIN out) = (HasReading("US2Y") /\ HasReading("US10Y"))
        /\ ("vix" \in DOMAIN out) = HasReading("VIX")
        /\ ("dxy" \in DOMAIN out) =
              (\E n \in {"DXY", "USD/EUR", "EUR/USD", "USD/JPY"} : HasReading(n))
        /\ ("risk" \in DOMAIN out) = (HasReading("SPX") \/ HasReading("GBP/USD"))
        /\ ("btc" \in DOMAIN out) = HasReading("BTC/USD")
        /\ DOMAIN out \subseteq
              {"yield", "yield_2y", "yield_30y", "yield_curve", "vix", "dxy", "risk", "btc"}
        /\ \A k \in DOMAIN out : DOMAIN out[k] # {}
        /\ (Readings = {}) => (DOMAIN out = {})

C13_Witness ==
    /\ op = "analyze_correlations"
    /\ HasReading("GBP/USD") /\ ~HasReading("SPX")
    /\ HasReading("US10Y") /\ ~HasReading("US2Y")
    /\ "risk" \in DOMAIN out
    /\ "yield_curve" \notin DOMAIN out


(***************************************************************************)
(* Claims about the indicators (specification SpecAnalysis)                *)
(***************************************************************************)
\* the closes that the trailing `period` changes are taken from
TrailingCloses == LastN(Closes(arg.data), arg.period + 1)
Rising(c) == \A i \in 2..Len(c) : RGt(c[i], c[i - 1])
Falling(c) == \A i \in 2..Len(c) : RLt(c[i], c[i - 1])
NeverFalls(c) == \A i \in 2..Len(c) : RLe(c[i - 1], c[i])

\* C14: calculate_rsi returns None exactly when the series has fewer than
\* period + 1 candles; otherwise it returns 100 when no close of the
\* trailing period is below the one before it (rising closes, average loss
\* zero), 0 when every close of the trailing period is below the one before
\* it, and always a value between 0 and 100.
C14_RsiRangeAndExtremes ==
    op = "calculate_rsi" =>
        /\ (out = Null) = (Len(arg.data) < arg.period + 1)
        /\ (out # Null) =>
              /\ RLe(R(0), out) /\ RLe(out, R(100))
              /\ Rising(TrailingCloses) => out = R(100)
              /\ NeverFalls(TrailingCloses) => out = R(100)
              /\ Falling(TrailingCloses) => out = R(0)

C14_Witness ==
    /\ op = "calculate_rsi"
    /\ arg.period = RSI_PERIOD
    /\ Len(arg.data) = RSI_PERIOD + 1
    /\ Falling(TrailingCloses)
    /\ out = R(0)

C14_WitnessRising ==
    /\ op = "calculate_rsi"
    /\ arg.period = RSI_PERIOD
    /\ Len(arg.data) > RSI_PERIOD + 1
    /\ Rising(TrailingCloses)
    /\ out = R(100)

C14_WitnessShort ==
    /\ op = "calculate_rsi"
    /\ arg.period = RSI_PERIOD
    /\ Len(arg.data) = RSI_PERIOD - 1
    /\ out = Null

C14_WitnessBetween ==
    /\ op = "calculate_rsi"
    /\ out # Null
    /\ RLt(R(0), out) /\ RLt(out, R(100))


(***************************************************************************)
(* Claims about the levels (specification SpecAnalysis)                    *)
(***************************************************************************)
\* the candles identify_support_resistance looks at
Window == LastN(arg.data, IF Lookback < Len(arg.data) THEN Lookback ELSE Len(arg.data))
Contains(s, x) == \E i \in 1..Len(s) : s[i] = x

\* C15 (as claimed): for every series of at least 5 candles the resistance
\* list contains the maximum high of the lookback window and the support
\* list contains its minimum low, so that neither list is empty.
C15_ExtremesAreLevels ==
    (op = "identify_support_resistance" /\ Len(arg.data) >= MinLevelCandles) =>
        /\ Contains(out.resistance, RMaxOf(Highs(Window)))
        /\ Contains(out.support, RMinOf(Lows(Window)))
        /\ out.resistance # <<>>
        /\ out.support # <<>>

\* the part of C15 that the code does keep: neither list is empty
C15_LevelsNotEmpty ==
    (op = "identify_support_resistance" /\ Len(arg.data) >= MinLevelCandles) =>
        /\ out.resistance # <<>>
        /\ out.support # <<>>


\* level x lies within the relative tolerance of the member m
WithinTolerance(x, m) == RLe(RDiv(RAbs(RSub(x, m)), m), threshold)
IsAscending(s) == \A i \in 2..Len(s) : RLt(s[i - 1], s[i])

\* C16 (as claimed): _cluster_levels returns the cluster levels in ascending
\* order, and a level starts a new cluster only if it is outside the
\* tolerance of every level handled before it (each of which is a member of
\* some cluster); [100.0, 100.05, 105.0] gives [100.0, 105.0].
C16_MergesWithinToleranceOfAnyMember ==
    op = "_cluster_levels" =>
        /\ IsAscending(out)
        /\ \A i \in 2..Len(out) : \A j \in 1..Len(arg.levels) :
              RLt(arg.levels[j], out[i]) => ~WithinTolerance(out[i], arg.levels[j])
        /\ (arg.levels = <<D(10000), D(10005), D(10500)>>) => (out = <<D(10000), D(10500)>>)

\* the parts of C16 that the code does keep: ascending output, the example,
\* and no cluster level within the tolerance of the cluster level before it
C16_AscendingAndApart ==
    op = "_cluster_levels" =>
        /\ IsAscending(out)
        /\ \A i \in 2..Len(out) : ~WithinTolerance(out[i], out[i - 1])
        /\ (arg.levels = <<D(10000), D(10005), D(10500)>>) => (out = <<D(10000), D(10500)>>)


\* the levels of one kind on the far side of the price
LevelsAbove == {arg.levels.resistance[i] : i \in 1..Len(arg.levels.resistance)}
LevelsBelow == {arg.levels.support[i] : i \in 1..Len(arg.levels.support)}
StrictlyAbove == {r \in LevelsAbove : RGt(r, arg.current_price)}
StrictlyBelow == {s \in LevelsBelow : RLt(s, arg.current_price)}

\* C17: find_nearest_levels reports a resistance entry exactly when some
\* resistance level is strictly above the price, and then the lowest such
\* level; a support entry exactly when some support level is strictly below
\* the price, and then the highest such level; every reported distance is
\* positive; price 100 with resistance {101, 110} and support {95, 99}
\* gives 101 and 99.
C17_NearestLevelsAreStrict ==
    op = "find_nearest_levels" =>
        /\ ("resistance" \in DOMAIN out) = (StrictlyAbove # {})
        /\ ("support" \in DOMAIN out) = (StrictlyBelow # {})
        /\ "resistance" \in DOMAIN out =>
              /\ out["resistance"][1] \in StrictlyAbove
              /\ \A r \in StrictlyAbove : RLe(out["resistance"][1], r)
              /\ RGt(out["resistance"][2], R(0))
              /\ out["resistance"][2] = RMul(RSub(out["resistance"][1], arg.current_price), R(10))
        /\ "support" \in DOMAIN out =>
              /\ out["support"][1] \in StrictlyBelow
              /\ \A s \in StrictlyBelow : RLe(s, out["support"][1])
              /\ RGt(out["support"][2], R(0))
              /\ out["support"][2] = RMul(RSub(arg.current_price, out["support"][1]), R(10))
        /\ (/\ arg.current_price = R(100)
            /\ LevelsAbove = {R(101), R(110)}
            /\ LevelsBelow = {R(95), R(99)})
              => (out["resistance"][1] = R(101) /\ out["support"][1] = R(99))

C17_Witness ==
    /\ op = "find_nearest_levels"
    /\ arg.current_price = R(100)
    /\ LevelsAbove = {R(100), R(101), R(110)}
    /\ LevelsBelow = {R(95), R(99), R(100)}
    /\ out["resistance"][1] = R(101)
    /\ out["support"][1] = R(99)

C17_WitnessExample ==
    /\ op = "find_nearest_levels"
    /\ arg.current_price = R(100)
    /\ LevelsAbove = {R(101), R(110)}
    /\ LevelsBelow = {R(95), R(99)}
    /\ out["resistance"][1] = R(101)
    /\ out["support"][1] = R(99)

C17_WitnessAbsent ==
    /\ op = "find_nearest_levels"
    /\ LevelsAbove = {R(100)}
    /\ arg.current_price = R(100)
    /\ "resistance" \notin DOMAIN out


\* the averages that could be computed, of a get_ma_alignment call
Computed == {p \in DOMAIN arg.mas : arg.mas[p] # Null}
PriceAboveAll == Computed # {} /\ \A p \in Computed : RGt(arg.current_price, arg.mas[p])
PriceBelowAll == Computed # {} /\ \A p \in Computed : RLt(arg.current_price, arg.mas[p])

\* the 1h series of a generate_market_snapshot call rises from candle to
\* candle, has at least 20 candles, and every configured average (periods of
\* 2 and more) is computable on it
RisingSeriesWithAverages ==
    /\ "1h" \in DOMAIN arg.market_data.xauusd.price_data
    /\ SeriesOf(arg) # NoneData
    /\ LET d == SeriesOf(arg).candles IN
          /\ Len(d) >= MinCandles
          /\ Rising(Closes(d))
          /\ \A i \in 1..Len(arg.periods) : arg.periods[i] >= 2 /\ arg.periods[i] <= Len(d)
NoEventWithinTheHour ==
    \/ arg.market_data.news = <<>>
    \/ arg.market_data.news[1].time - now >= 3600

\* C18: the alignment is Bullish exactly when at least one average is
\* computable and the price is strictly above every computed one, Bearish
\* exactly when it is strictly below every computed one, otherwise Neutral;
\* and a rising 1h series of at least 20 candles on which every configured
\* average is computable, with no event within the hour, gives alignment
\* Bullish, RSI status Overbought and primary driver Technical.
C18_AlignmentAndTechnicalDriver ==
    /\ op = "get_ma_alignment" =>
          /\ (out = "Bullish") = PriceAboveAll
          /\ (out = "Bearish") = PriceBelowAll
          /\ (out = "Neutral") = (~PriceAboveAll /\ ~PriceBelowAll)
    /\ (op = "generate_market_snapshot" /\ RisingSeriesWithAverages) =>
          /\ out.technical.ma_alignment = "Bullish"
          /\ out.technical.rsi_status = "Overbought"
          /\ NoEventWithinTheHour => out.primary_driver = "Technical"

C18_Witness ==
    /\ op = "generate_market_snapshot"
    /\ RisingSeriesWithAverages
    /\ arg.periods = MA_PERIODS
    /\ arg.market_data.news # <<>>
    /\ NoEventWithinTheHour
    /\ "yield" \in DOMAIN out.correlations
    /\ out.technical.ma_alignment = "Bullish"
    /\ out.primary_driver = "Technical"

C18_WitnessNeutral ==
    /\ op = "get_ma_alignment"
    /\ Computed # {}
    /\ \E p \in Computed : arg.mas[p] = arg.current_price
    /\ out = "Neutral"

C18_WitnessBearish ==
    /\ op = "get_ma_alignment"
    /\ Computed # DOMAIN arg.mas
    /\ out = "Bearish"


\* the levels of the two readings that the curve is computed from
TenYear == PriceOf(arg.correlation_data["US10Y"])
TwoYear == PriceOf(arg.correlation_data["US2Y"])
CurveInputs == HasReading("US2Y") /\ HasReading("US10Y")

\* C19: with both the 2Y and the 10Y reading present, yield_curve.spread is
\* the 10Y level minus the 2Y level, and the status is Inverted exactly when
\* spread < -0.1, Flat exactly when -0.1 <= spread <= 0, Normal exactly when
\* spread > 0 (2Y 4.50 and 10Y 4.30 give Inverted, 10Y 4.55 gives Normal).
C19_YieldCurveStatus ==
    (op = "analyze_correlations" /\ CurveInputs) =>
        LET curve == out["yield_curve"]
            spread == curve.spread IN
        /\ spread = RSub(TenYear, TwoYear)
        /\ curve.status \in {"Inverted", "Flat", "Normal"}
        /\ (curve.status = "Inverted") = RLt(spread, Rat(-1, 10))
        /\ (curve.status = "Flat") = (RLe(Rat(-1, 10), spread) /\ RLe(spread, R(0)))
        /\ (curve.status = "Normal") = RGt(spread, R(0))
        /\ (TwoYear = D(450) /\ TenYear = D(430)) => curve.status = "Inverted"
        /\ (TwoYear = D(450) /\ TenYear = D(455)) => curve.status = "Normal"

C19_Witness ==
    /\ op = "analyze_correlations"
    /\ CurveInputs
    /\ TwoYear = D(450) /\ TenYear = D(450)
    /\ out["yield_curve"].status = "Flat"

C19_WitnessInverted ==
    /\ op = "analyze_correlations"
    /\ CurveInputs
    /\ TwoYear = D(450) /\ TenYear = D(430)
    /\ out["yield_curve"].status = "Inverted"

C19_WitnessEdge ==
    /\ op = "analyze_correlations"
    /\ CurveInputs
    /\ TwoYear = D(450) /\ TenYear = D(440)
    /\ out["yield_curve"].status = "Flat"

C19_WitnessNormal ==
    /\ op = "analyze_correlations"
    /\ CurveInputs
    /\ TwoYear = D(450) /\ TenYear = D(455)
    /\ out["yield_curve"].status = "Normal"


\* the dollar readings of the call, and the one the claim says is used
DollarNames == {"DXY", "USD/EUR", "EUR/USD", "USD/JPY"}
DollarInputs == \E n \in DollarNames : HasReading(n)
FirstDollar ==
    IF HasReading("DXY") THEN "DXY"
    ELSE IF HasReading("USD/EUR") THEN "USD/EUR"
    ELSE IF HasReading("EUR/USD") THEN "EUR/USD"
    ELSE "USD/JPY"
LowerDollars == (DollarNames \ {FirstDollar}) \cap Readings
OtherProfiles == {[y10 |-> D(430), pc |-> D(60), pc2 |-> D(-60)],
                  [y10 |-> D(430), pc |-> D(-50), pc2 |-> D(50)]}
Without(d, S) == [n \in DOMAIN d \ S |-> d[n]]

\* C20: the dollar record is computed from the first reading present in the
\* order DXY, USD/EUR, EUR/USD, USD/JPY; removing or changing the readings
\* after it leaves the record as it is; the pressure is Strong exactly when
\* |percent change| > 0.5, otherwise Weak, and is labelled Direct exactly
\* for a positive move of EUR/USD, otherwise Inverse.
C20_FirstDollarProxyOnly ==
    (op = "analyze_correlations" /\ DollarInputs) =>
        LET used == arg.correlation_data[FirstDollar]
            dxy == out["dxy"] IN
        /\ dxy.price = PriceOf(used)
        /\ dxy.percent_change = PercentChangeOf(used)
        /\ Get(dxy, "symbol", "DXY") = FirstDollar
        /\ AnalyzeCorrelations(Without(arg.correlation_data, LowerDollars))["dxy"] = dxy
        /\ \A n \in LowerDollars : \A v \in OtherProfiles :
              AnalyzeCorrelations(Put(arg.correlation_data, n, Reading(n, v)))["dxy"] = dxy
        /\ dxy.pressure[1] \in {"Strong", "Weak"}
        /\ (dxy.pressure[1] = "Strong") = RGt(RAbs(PercentChangeOf(used)), Rat(5, 10))
        /\ dxy.pressure[2] \in {"Direct", "Inverse"}
        /\ (dxy.pressure[2] = "Direct") =
              (FirstDollar = "EUR/USD" /\ RGt(PercentChangeOf(used), R(0)))

C20_Witness ==
    /\ op = "analyze_correlations"
    /\ FirstDollar = "EUR/USD"
    /\ HasReading("EUR/USD") /\ HasReading("USD/JPY")
    /\ PercentChangeOf(arg.correlation_data["EUR/USD"]) = D(60)
    /\ PercentChangeOf(arg.correlation_data["USD/JPY"]) = D(-50)
    /\ out["dxy"].pressure = <<"Strong", "Direct">>

C20_WitnessWeakEdge ==
    /\ op = "analyze_correlations"
    /\ FirstDollar = "DXY"
    /\ LowerDollars = DollarNames \ {"DXY"}
    /\ PercentChangeOf(arg.correlation_data["DXY"]) = D(50)
    /\ out["dxy"].pressure = <<"Weak", "Inverse">>

C20_WitnessJpy ==
    /\ op = "analyze_correlations"
    /\ DollarInputs
    /\ FirstDollar = "USD/JPY"
    /\ out["dxy"].pressure = <<"Strong", "Inverse">>


(***************************************************************************)
(* Claims about the driver and the alerts (specification SpecAnalysis)     *)
(***************************************************************************)
\* the first event of the list is still to come, within `minutes` from now
EventWithin(news_events, minutes) ==
    /\ news_events # <<>>
    /\ news_events[1].time >= now
    /\ news_events[1].time - now < minutes * 60
\* the first event of the list lies in the past
EventPassed(news_events) == news_events # <<>> /\ news_events[1].time < now

\* rules two to five of the driver
DriverAfterEvents(technical_data, analysis) ==
    IF "rsi_status" \in DOMAIN technical_data
       /\ technical_data["rsi_status"] \in {"Overbought", "Oversold"} THEN "Technical"
    ELSE IF "yield" \in DOMAIN analysis /\ RGt(RAbs(analysis["yield"].change_bps), R(5))
    THEN "Fundamental"
    ELSE IF "dxy" \in DOMAIN analysis /\ RGt(RAbs(analysis["dxy"].percent_change), Rat(1, 2))
    THEN "Sentiment"
    ELSE "Technical"

\* C21 (as claimed): determine_primary_driver returns Fundamental if the
\* first event is to come within 60 minutes from now, and otherwise what
\* the rules RSI status, yield move, dollar move, default give in this
\* order; an event outside the coming 60 minutes does not make the driver
\* Fundamental by the first rule.
C21_FirstMatchingRule ==
    op = "determine_primary_driver" =>
        out = IF EventWithin(arg.news_events, 60) THEN "Fundamental"
              ELSE DriverAfterEvents(arg.technical_data, arg.correlation_analysis)

\* the part of C21 that the code does keep: the rules and their order, for
\* every list whose first event has not passed
C21_RulesInOrderWhenEventAhead ==
    (op = "determine_primary_driver" /\ ~EventPassed(arg.news_events)) =>
        out = IF EventWithin(arg.news_events, 60) THEN "Fundamental"
              ELSE DriverAfterEvents(arg.technical_data, arg.correlation_analysis)


\* the checks of check_alerts, each from the arguments of the call alone
NearLevel(side) ==
    /\ "nearest_levels" \in DOMAIN arg.technical_data
    /\ side \in DOMAIN arg.technical_data.nearest_levels
    /\ LET price == arg.technical_data.current_price
           level == arg.technical_data.nearest_levels[side][1] IN
       RLt(RMul(RAbs(RSub(price, level)), R(1000)), RMul(price, R(2)))
YieldMoved ==
    /\ "yield" \in DOMAIN arg.correlation_analysis
    /\ RGt(RAbs(arg.correlation_analysis["yield"].change_bps), R(5))
DollarMoved ==
    /\ "dxy" \in DOMAIN arg.correlation_analysis
    /\ RGt(RAbs(arg.correlation_analysis["dxy"].percent_change), R(1))
EventSoon == arg.news_events # <<>> /\ arg.news_events[1].time - now < 30 * 60
FiredChecks ==
    (IF NearLevel("resistance") THEN {"Approaching Resistance"} ELSE {})
    \cup (IF NearLevel("support") THEN {"Approaching Support"} ELSE {})
    \cup (IF YieldMoved THEN {"Large Yield Move"} ELSE {})
    \cup (IF DollarMoved THEN {"Significant DXY Movement"} ELSE {})
    \cup (IF EventSoon THEN {"High-Impact News"} ELSE {})

\* C22: check_alerts returns the one-element list ["None"] exactly when
\* none of its five checks fires; otherwise it returns one string for each
\* check that fires, whatever the other checks do, and that list is not
\* empty and does not contain "None".
C22_NoneIffNoCheckFires ==
    op = "check_alerts" =>
        /\ out # <<>>
        /\ (out = <<"None">>) = (FiredChecks = {})
        /\ FiredChecks # {} =>
              /\ Elems(out) = FiredChecks
              /\ Len(out) = Cardinality(FiredChecks)
              /\ "None" \notin Elems(out)

C22_Witness ==
    /\ op = "check_alerts"
    /\ NearLevel("support") /\ ~NearLevel("resistance")
    /\ "resistance" \in DOMAIN arg.technical_data.nearest_levels
    /\ DollarMoved /\ ~YieldMoved /\ ~EventSoon
    /\ out = <<"Approaching Support", "Significant DXY Movement">>

C22_WitnessNone ==
    /\ op = "check_alerts"
    /\ arg.news_events # <<>>
    /\ arg.news_events[1].time - now = 30 * 60
    /\ "yield" \in DOMAIN arg.correlation_analysis
    /\ arg.correlation_analysis["yield"].change_bps = R(5)
    /\ "dxy" \in DOMAIN arg.correlation_analysis
    /\ arg.correlation_analysis["dxy"].percent_change = R(1)
    /\ "nearest_levels" \in DOMAIN arg.technical_data
    /\ DOMAIN arg.technical_data.nearest_levels = {"resistance", "support"}
    /\ out = <<"None">>

C22_WitnessAll ==
    /\ op = "check_alerts"
    /\ Len(out) = 5


(***************************************************************************)
(* Claims about the batched request (specification SpecAnalysis)           *)
(***************************************************************************)
\* the symbols in lexicographic order, and the sorted list of a set of them
SymbolOrder == <<"EUR/USD", "GBP/USD", "USD/JPY">>
SortedSymbols(S) == SelectSeq(SymbolOrder, LAMBDA x : x \in S)
Requested == SymbolsOf(arg.symbols_map)

\* C23 (as claimed): the batch request string is the de-duplicated, sorted
\* list of the requested symbols and the cache key is derived from it, so
\* that configurations naming the same set of symbols use the same string
\* and the same key.
C23_KeyFromSortedSymbols ==
    op = "get_correlation_data" =>
        /\ out.batch_string = Join(SortedSymbols(Requested))
        /\ out.key = "quotes_batch_" \o Join(SortedSymbols(Requested))

\* the part of C23 that the code does keep: the string lists every
\* requested symbol once, and the key is the string behind "quotes_batch_"
C23_KeyListsEachSymbolOnce ==
    op = "get_correlation_data" =>
        /\ \E l \in SetOrders(Requested) : out.batch_string = Join(l)
        /\ out.key = "quotes_batch_" \o out.batch_string


\* the shapes of the batch answer
SingleRecord(b) == b # NoneData /\ "symbol" \in DOMAIN b
MapShaped(b) == b # NoneData /\ DOMAIN b # {} /\ DOMAIN b \subseteq ConfigSymbols
Pairs == {arg.symbols_map[i] : i \in 1..Len(arg.symbols_map)}
Bound(name, quote) ==
    name \in DOMAIN out.correlation_data /\ out.correlation_data[name] = quote

\* C24 (as claimed): every configured name whose symbol is in a map-shaped
\* batch answer is bound to that symbol's quote; when one distinct symbol
\* was requested and the answer is a single unwrapped record, every name of
\* that symbol is bound to the record; a name whose symbol is missing from
\* the answer gets no entry.
C24_NamesBoundToQuotes ==
    op = "get_correlation_data" =>
        LET b == arg.batch_quotes IN
        /\ MapShaped(b) =>
              \A p \in Pairs :
                 IF p[2] \in DOMAIN b THEN Bound(p[1], b[p[2]])
                 ELSE p[1] \notin DOMAIN out.correlation_data
        /\ (SingleRecord(b) /\ Cardinality(Requested) = 1) =>
              \A p \in Pairs : Bound(p[1], b)

\* the part of C24 that the code does keep: map-shaped answers, and single
\* records that carry a "price" field
C24_MapShapedAndPricedRecords ==
    op = "get_correlation_data" =>
        LET b == arg.batch_quotes IN
        /\ MapShaped(b) =>
              \A p \in Pairs :
                 IF p[2] \in DOMAIN b THEN Bound(p[1], b[p[2]])
                 ELSE p[1] \notin DOMAIN out.correlation_data
        /\ (SingleRecord(b) /\ Cardinality(Requested) = 1) =>
              \A p \in Pairs : IF "price" \in DOMAIN b THEN Bound(p[1], b)
                               ELSE p[1] \notin DOMAIN out.correlation_data
        /\ ~DictTruthy(b) => out.correlation_data = arg.correlation_data


(***************************************************************************)
(* Claims about get_price_data (specification SpecAnalysis)                *)
(***************************************************************************)
\* the items of the response that convert, as candles, in response order
GoodCandles == LET ok == SelectSeq(arg.data.values, LAMBDA it : it.kind = "ok") IN
               [i \in 1..Len(ok) |-> CandleOf(ok[i])]
HasValues == "values" \in DOMAIN arg.data

\* C25 (as claimed): whatever order and duplicates the response has, the
\* series returned by get_price_data is ascending by timestamp with no two
\* candles of the same timestamp, and malformed items are skipped without
\* failing the series.
C25_SeriesAscendingWithoutDuplicates ==
    (op = "get_price_data" /\ HasValues) =>
        /\ out # NoneData
        /\ \A i \in 2..Len(out.candles) :
              out.candles[i - 1].datetime < out.candles[i].datetime
        /\ Elems(out.candles) \subseteq Elems(GoodCandles)

\* the part of C25 that the code does keep: a returned series is ascending
\* (not strictly), holds exactly the items that convert, and items with a
\* missing field or an unreadable number are skipped
C25_SeriesSortedNotDeduplicated ==
    (op = "get_price_data" /\ HasValues) =>
        /\ (out = NoneData) = (\E i \in 1..Len(arg.data.values) :
                                  arg.data.values[i].kind = "null_field")
        /\ out # NoneData =>
              /\ \A i \in 2..Len(out.candles) :
                    out.candles[i - 1].datetime <= out.candles[i].datetime
              /\ Len(out.candles) = Len(GoodCandles)
              /\ Elems(out.candles) = Elems(GoodCandles)


(***************************************************************************)
(* Claims about the snapshot (specification SpecAnalysis)                  *)
(***************************************************************************)
\* the percentage change from the close k positions before the latest
\* candle of the analysed series to the latest close
ChangeFrom(k) ==
    LET d == SeriesOf(arg).candles
        latest == d[Len(d)].close
        earlier == d[Len(d) - k].close IN
    RMul(RDiv(RSub(latest, earlier), earlier), R(100))
Analysed == op = "generate_market_snapshot" /\ ~ShortSeries(arg)

\* C26 (as claimed): the 1-hour price change of analyze_timeframe is the
\* percentage change between the latest close and the close of the candle
\* five positions before the latest candle.
C26_ChangeFromFiveCandlesBack ==
    Analysed => out.technical.price_change_1h = ChangeFrom(5)

\* what the code computes: the change from the fifth candle counted from
\* the end, four positions before the latest
C26_ChangeFromFourCandlesBack ==
    Analysed => out.technical.price_change_1h = ChangeFrom(4)


(***************************************************************************)
(* Claims about a provider reading (specification SpecReading)             *)
(***************************************************************************)
\* the reading of the call has the missing sign as its latest observation
LatestMissing == Len(arg.observations) > 0 /\ arg.observations[1].missing

\* C27 (as claimed): for every reading that get_series_latest can return
\* and get_correlation_data can place in the map, the one of a missing
\* latest observation (price None, change 0) included, the analysis
\* completes and generate_market_snapshot yields a snapshot.
C27_SnapshotForEveryReading ==
    (arg.fn = "get_series_latest" /\ op = "generate_market_snapshot") =>
        /\ out # Raised("TypeError")
        /\ "correlations" \in DOMAIN out

\* what the code does: the snapshot is produced exactly when the reading is
\* absent, has a number as its level, or is a dollar rate behind a present
\* dollar index; a placed reading whose level is None raises TypeError
C27_RaisesOnMissingLatest ==
    (arg.fn = "get_series_latest" /\ op = "generate_market_snapshot") =>
        (out = Raised("TypeError")) =
            (LatestMissing /\ ~(arg.name = "USD/EUR" /\ "DXY" \in DOMAIN arg.others))


(***************************************************************************)
(* Claims about the served snapshot (specification SpecServe)              *)
(***************************************************************************)
\* the cycle of the background thread that is under way or just over raised
CycleRaised == app.outcome \in {"generate raised", "emit raised"}

\* a step of a handler: the background thread, whose every step moves its
\* position, stands still
HandlerStep(name) == app'.pc = app.pc /\ op' = name

\* on this step /api/snapshot answers 503 exactly when current_snapshot is None
Answers503WhileNone ==
    HandlerStep("get_snapshot") => ((out'.status = 503) = (app.current_snapshot = None))

\* C28: current_snapshot differs from its value at the start of the cycle only
\* when the cycle completed without raising; an on-demand cycle leaves it as
\* it was; once set it is never None again; /api/snapshot answers 503 exactly
\* while it is None.
C28_WrittenOnlyBySuccessfulCycle ==
    /\ [](CycleRaised => app.current_snapshot = app.before)
    /\ [][/\ Answers503WhileNone
          /\ HandlerStep("handle_manual_update")
                => app'.current_snapshot = app.current_snapshot
          /\ app.current_snapshot # None => app'.current_snapshot # None]_vars

\* C28, as the code has it: current_snapshot is written by line 35 alone, as
\* soon as generate_market_snapshot has returned and before the broadcast; a
\* cycle in which generate_market_snapshot raises, and an on-demand cycle,
\* leave it as it was; it never goes back to None; 503 exactly while None.
C28_WrittenWhenGenerateReturned ==
    /\ [](app.outcome = "generate raised" => app.current_snapshot = app.before)
    /\ [][/\ Answers503WhileNone
          /\ app'.current_snapshot # app.current_snapshot
                => (app.pc = "assign" /\ app'.current_snapshot = app.snapshot)
          /\ app.current_snapshot # None => app'.current_snapshot # None]_vars

(***************************************************************************)
(* Claims about the snapshot as a whole (specification SpecAnalysis)       *)
(***************************************************************************)
\* the snapshot returned by generate_market_snapshot lists the news alert
NewsAlertRaised ==
    \E i \in 1..Len(out.alerts) : out.alerts[i] = "High-Impact News"

\* C29: in every snapshot whose alerts contain the upcoming-news alert the
\* primary driver is Fundamental, whatever the technical and correlation
\* inputs are.
C29_NewsAlertMeansFundamental ==
    (arg.fn = "generate_market_snapshot" /\ op = "generate_market_snapshot") =>
        (NewsAlertRaised => out.primary_driver = "Fundamental")

\* C29 witness: a snapshot with the news alert on a series whose RSI is at an
\* extreme, which without the event would make the driver Technical.
C29_Witness ==
    /\ arg.fn = "generate_market_snapshot" /\ op = "generate_market_snapshot"
    /\ NewsAlertRaised
    /\ Get(out.technical, "rsi_status", None) \in {"Overbought", "Oversold"}
    /\ out.primary_driver = "Fundamental"

\* C29 witness: the same on a series too short to analyse and with a dollar
\* move that would make the driver Sentiment.
C29_WitnessSentiment ==
    /\ arg.fn = "generate_market_snapshot" /\ op = "generate_market_snapshot"
    /\ NewsAlertRaised
    /\ out.technical = InsufficientData
    /\ DeterminePrimaryDriver(out.technical, <<>>, out.correlations) = "Sentiment"
    /\ out.primary_driver = "Fundamental"

(***************************************************************************)
(* Claims about the event list across cycles (specification SpecNews)      *)
(***************************************************************************)
\* a cycle has built its snapshot
CycleBuilt == arg.fn = "get_upcoming_news" /\ op = "generate_market_snapshot"

\* the event reported as next catalyst lay in the past when the snapshot was built
CatalystPassed == out.news[1].time < out.at

\* the first event decided the driver or raised the news alert
EventUsed ==
    \/ out.primary_driver = "Fundamental"
    \/ \E i \in 1..Len(out.alerts) : out.alerts[i] = "High-Impact News"

\* C30: in every cycle the event reported as next catalyst is still upcoming:
\* its minutes_until is not negative, and an event whose time has passed
\* decides neither the driver nor the news alert.
C30_NextCatalystStillUpcoming ==
    CycleBuilt =>
        /\ out.next_catalyst.minutes_until >= 0
        /\ CatalystPassed => ~EventUsed

\* C30, as the code has it: the first event was upcoming when the list was
\* fetched, the list is at most CACHE_TTL["NEWS"] seconds old, and a first
\* event that has passed since always decides the driver and raises the alert.
C30_UpcomingWhenFetched ==
    CycleBuilt =>
        /\ out.news[1].time >= out.fetched_at
        /\ out.at - out.fetched_at < TTL_NEWS
        /\ out.next_catalyst.minutes_until > -(TTL_NEWS \div 60)
        /\ CatalystPassed =>
              /\ out.primary_driver = "Fundamental"
              /\ \E i \in 1..Len(out.alerts) : out.alerts[i] = "High-Impact News"

\* the truncation of int(): an event 30 seconds past is reported 0 minutes away
C30_PassedEventAtZeroMinutes ==
    ~(CycleBuilt /\ CatalystPassed /\ out.next_catalyst.minutes_until = 0)

====
